---- MODULE Spec2Model ----
(***************************************************************************)
(* Model of the devcontainer launcher (main.go): the `start` session       *)
(* lifecycle (run), the `exec` attach path (resolveContainer, runExec),    *)
(* the signal relay goroutine and the process exit in main.                *)
(*                                                                         *)
(* Strings are sequences of tokens (<<"devcontainer-", "a">> is            *)
(* "devcontainer-a"); paths are sequences of components, <<>> being "/".   *)
(***************************************************************************)
EXTENDS Integers, Sequences, FiniteSets, TLC

\* ------------------------------------------------------------------ bounds
MaxDepth == 2       \* the working directory lies MaxDepth levels below "/"
MaxPorts == 2       \* longest --port list
MaxSignals == 2     \* most SIGINT/SIGTERM deliveries in one run

\* ------------------------------------------------------- strings and paths
EmptyStr == <<>>
Prefix == <<"devcontainer-">>
NoPath == <<EmptyStr>>                  \* Go's "" used as a path
RootPath == <<>>                        \* "/"
TempDir == <<<<"tmp">>>>                \* os.TempDir()

Join(p, comp) == Append(p, comp)

Dir(p) == IF p = RootPath THEN RootPath ELSE SubSeq(p, 1, Len(p) - 1)

Base(p) == p[Len(p)]

\* a path from its components' names
Comps(ss) == [i \in 1..Len(ss) |-> <<ss[i]>>]

\* dir + "/sub/path": string concatenation, "//sub/path" when dir is "/"
StrCat(p, ss) == IF p = RootPath THEN <<EmptyStr>> \o Comps(ss) ELSE p \o Comps(ss)

\* filepath.Clean of an absolute path: ".." steps back, "." and "" vanish
RECURSIVE CleanFrom(_, _)
CleanFrom(done, rest) ==
    IF rest = <<>> THEN done
    ELSE IF Head(rest) = <<"..">> THEN CleanFrom(Dir(done), Tail(rest))
    ELSE IF Head(rest) \in {<<".">>, EmptyStr} THEN CleanFrom(done, Tail(rest))
    ELSE CleanFrom(Append(done, Head(rest)), Tail(rest))

Clean(p) == CleanFrom(<<>>, p)

\* strings.HasPrefix(p, dir + "/")
UnderDir(p, dir) == Len(p) > Len(dir) /\ SubSeq(p, 1, Len(dir)) = dir

\* the components of a string that holds path separators
RECURSIVE SplitSlash(_, _)
SplitSlash(s, cur) ==
    IF s = <<>> THEN <<cur>>
    ELSE IF Head(s) = "/" THEN <<cur>> \o SplitSlash(Tail(s), <<>>)
    ELSE SplitSlash(Tail(s), Append(cur, Head(s)))

\* filepath.Join(p, s) for an absolute p: the elements are joined and cleaned
JoinStr(p, s) == Clean(p \o SplitSlash(s, <<>>))

HomeDir == Comps(<<"home", "u">>)        \* os.UserHomeDir()
DevHome == Comps(<<"home", "dev">>)      \* devHome
DockerSock == Comps(<<"var", "run", "docker.sock">>)

TrimPrefix(s, pre) ==
    IF Len(s) >= Len(pre) /\ SubSeq(s, 1, Len(pre)) = pre
    THEN SubSeq(s, Len(pre) + 1, Len(s))
    ELSE s

RECURSIVE TrimLeft(_)
TrimLeft(s) == IF s # <<>> /\ Head(s) = " " THEN TrimLeft(Tail(s)) ELSE s

RECURSIVE TrimRight(_)
TrimRight(s) ==
    IF s # <<>> /\ s[Len(s)] = " " THEN TrimRight(SubSeq(s, 1, Len(s) - 1)) ELSE s

TrimSpace(s) == TrimRight(TrimLeft(s))

\* The chain of directories from "/" down to the working directory.
DirName(i) == <<"d" \o ToString(i)>>
PathAt(d) == [i \in 1..d |-> DirName(i)]
Cwd == PathAt(MaxDepth)
Ancestors == {PathAt(d) : d \in 0..MaxDepth}
JJ == <<".jj">>
GIT == <<".git">>
MarkerDirs == {Join(p, m) : p \in Ancestors, m \in {JJ, GIT}}

\* ------------------------------------------------------------ port strings
Digits == {"8080", "80", "90", "1"}
Signs == {"+", "-"}

\* strings.SplitN(p, ":", 2)
RECURSIVE IndexOf(_, _, _)
IndexOf(s, tok, i) ==
    IF i > Len(s) THEN 0 ELSE IF s[i] = tok THEN i ELSE IndexOf(s, tok, i + 1)

SplitN2(p) ==
    LET k == IndexOf(p, ":", 1)
    IN IF k = 0 THEN <<p>> ELSE <<SubSeq(p, 1, k - 1), SubSeq(p, k + 1, Len(p))>>

\* strconv.Atoi succeeds: an optional sign followed by one or more digits
\* (the sampled numerals are far below the int range).
AtoiOK(s) ==
    LET body == IF s # <<>> /\ Head(s) \in Signs THEN Tail(s) ELSE s
    IN body # <<>> /\ \A i \in 1..Len(body) : body[i] \in Digits

PortValid(p) ==
    LET parts == SplitN2(p)
    IN Len(parts) = 2 /\ AtoiOK(parts[1]) /\ AtoiOK(parts[2])

\* FirstBadPort looking at the first entry only
FirstBadPortHeadOnly(ps, i) ==
    IF i > Len(ps) THEN 0
    ELSE IF ~PortValid(ps[i]) THEN i ELSE 0

\* Index of the first entry the validation loop rejects, 0 when none.
RECURSIVE FirstBadPort(_, _)
FirstBadPort(ps, i) ==
    IF i > Len(ps) THEN 0
    ELSE IF ~PortValid(ps[i]) THEN i ELSE FirstBadPort(ps, i + 1)

PortSamples ==
    { <<"8080", ":", "80">>,
      <<"8080", ":", "abc">>,
      <<"8080">>,
      <<"8080", ":", "80", ":", "90">>,
      <<":", "80">>,
      <<"-", "1", ":", "80">>,
      <<>> }

RECURSIVE SeqsUpTo(_, _)
SeqsUpTo(S, n) ==
    IF n = 0 THEN {<<>>}
    ELSE LET shorter == SeqsUpTo(S, n - 1)
         IN shorter \cup {Append(q, x) : q \in shorter, x \in S}


\* ------------------------------------------------------------------ state
VARIABLES
    \* inputs of one invocation (fixed by Init)
    cmd,              \* "start" or "exec"
    name,             \* --name
    vcsFlag,          \* --vcs
    envVCS,           \* DEVCONTAINER_VCS
    envBuildWs,       \* BUILD_WORKSPACE_DIRECTORY (NoPath when unset)
    envContainerName, \* CONTAINER_NAME (EmptyStr when unset)
    fsDirs,           \* marker directories present on the host
    ports,            \* --port entries
    resume,           \* --resume
    extraArgs,        \* trailing command
    target,           \* exec: container-name argument
    containers,       \* exec: names docker ps lists, in order
    isTerminal,       \* exec: stdin is a terminal
    faults,           \* FALSE: a host on which every external command succeeds
                      \* and the child exits 0
    docker,           \* --docker
    envSSHSock,       \* SSH_AUTH_SOCK (NoPath when unset)
    fsFiles,          \* regular files present on the host
    fsSockets,        \* sockets present on the host
    gitTarget,        \* content of .jj/repo/store/git_target
    softFaults,       \* commands whose result is ignored may fail
    sessionCommits,   \* the session leaves commits HEAD does not contain
    \* locals of run / runExec
    pc, workspaceDir, vcs, worktreeDir, originalWorkspace, branchName,
    worktreeName, suffix, containerName, exitCode, retErr, cleanupRet,
    execName,
    mounts,           \* the -v arguments, in order
    envArgs,          \* the -e arguments, in order
    dockerArgs,       \* the docker run command line
    \* signal handling
    notifyOn,         \* signal.Notify(sigCh, SIGINT, SIGTERM) in force
    sigCh,            \* contents of the one-slot channel
    chClosed, relayPc, sigsLeft,
    delivered,        \* signals received so far
    forwarded, lateForward,
    \* the docker child process
    child, childStatus,
    \* the host
    effects,          \* external commands and file operations, in order
    copyState,        \* the isolated copy: "none", "exists", "destroyed"
    destroyCalls,     \* cleanupWorktree calls that went past its guard
    contextDir,       \* build context: "none", "exists", "removed"
    bazelRC,          \* temporary bazelrc: "none", "exists", "removed"
    ignored,          \* commands whose failure was swallowed
    branchState,      \* session branch: "none", "merged", "unmerged", "deleted"
    removedName,      \* container name last given to docker rm -f
    claudeFile,       \* ~/.claude.json: "absent", "unreadable", "malformed",
                      \* "null", "untrusted", "trusted", "truncated"
    bazelDir,         \* directory `bazel info output_base` ran in
    \* the orchestrator process
    procState,        \* "running", "exited", "killed"
    procExit, errPrinted

inputs == <<cmd, name, vcsFlag, envVCS, envBuildWs, envContainerName, fsDirs,
            ports, resume, extraArgs, target, containers, isTerminal, faults,
            docker, envSSHSock, fsFiles, fsSockets, gitTarget, softFaults,
            sessionCommits>>
plan == <<mounts, envArgs, dockerArgs>>
locals == <<workspaceDir, vcs, worktreeDir, originalWorkspace, branchName,
            worktreeName, suffix, containerName, execName, plan>>
ctl == <<pc, exitCode, retErr, cleanupRet>>
sigv == <<notifyOn, sigCh, chClosed, relayPc, sigsLeft, delivered, forwarded,
          lateForward>>
childv == <<child, childStatus>>
probev == <<claudeFile, bazelDir>>
hostv == <<bazelRC, ignored, branchState, removedName, probev>>
world == <<effects, copyState, destroyCalls, contextDir, hostv>>
proc == <<procState, procExit, errPrinted>>
vars == <<inputs, locals, ctl, sigv, childv, world, proc>>

\* ----------------------------------------------------------- input domains
VCSValues == {"", "git", "jj", "hg"}
Names == {EmptyStr, <<"a">>}
RandSuffixes == {<<"r1">>, <<"r2">>}
ResumeValues == {EmptyStr, <<" ">>, <<"id">>}
ExtraArgsValues == {<<>>, <<"bash">>}
PortLists == SeqsUpTo(PortSamples, MaxPorts)
Targets == {EmptyStr, <<"b">>, <<"x">>, <<"claude-dev">>}
ContainerNames == {<<"devcontainer-", "a">>, <<"devcontainer-", "b">>, <<"claude-dev">>}
ContainerLists ==
    { <<>>,
      << <<"devcontainer-", "b">> >>,
      << <<"claude-dev">> >>,
      << <<"devcontainer-", "a">>, <<"devcontainer-", "b">>, <<"claude-dev">> >> }
\* child outcomes: exited with a code, or killed by a signal
ChildCodes == {0, 1, 137}
ChildStatuses == [exited : {TRUE}, code : ChildCodes] \cup {[exited |-> FALSE, code |-> 0]}

\* docker run has not been composed yet
NoArgs == [sub |-> "none"]
\* git_target: absent, or a path that is absolute or relative to the store
NoTarget == [present |-> FALSE, abs |-> FALSE, path |-> <<>>]
PlainHost ==
    [docker |-> FALSE, ssh |-> NoPath, files |-> {}, sockets |-> {}, target |-> NoTarget]

\* errors returned by RunE
Nil == [type |-> "nil", msg |-> "", code |-> 0]
Err(m) == [type |-> "error", msg |-> m, code |-> 0]
exitCodeError(c) == [type |-> "exitCodeError", msg |-> "exit status", code |-> c]

\* ------------------------------------------------------------------- Init
InitLocals ==
    /\ workspaceDir = NoPath /\ vcs = "" /\ worktreeDir = NoPath
    /\ originalWorkspace = NoPath /\ branchName = EmptyStr
    /\ worktreeName = EmptyStr /\ suffix = EmptyStr
    /\ containerName = EmptyStr /\ execName = EmptyStr
    /\ exitCode = 0 /\ retErr = Nil /\ cleanupRet = "none"
    /\ notifyOn = FALSE /\ sigCh = <<>> /\ chClosed = FALSE /\ relayPc = "none"
    /\ delivered = 0 /\ forwarded = 0 /\ lateForward = FALSE
    /\ child = "none" /\ childStatus = [exited |-> FALSE, code |-> 0]
    /\ effects = <<>> /\ copyState = "none" /\ destroyCalls = 0
    /\ contextDir = "none" /\ bazelRC = "none" /\ ignored = {}
    /\ bazelDir = NoPath
    /\ branchState = "none"
    /\ mounts = <<>> /\ envArgs = <<>> /\ dockerArgs = NoArgs /\ removedName = EmptyStr
    /\ procState = "running" /\ procExit = 0 /\ errPrinted = FALSE

HostIs(h) ==
    /\ docker = h.docker /\ envSSHSock = h.ssh /\ fsFiles = h.files
    /\ fsSockets = h.sockets /\ gitTarget = h.target

InitRun(names, flags, envs, wsEnvs, trees, pls, resumes, extras, sigs, flt) ==
    /\ cmd = "start" /\ pc = "checkResume"
    /\ name \in names /\ vcsFlag \in flags /\ envVCS \in envs
    /\ envBuildWs \in wsEnvs /\ fsDirs \in trees
    /\ ports \in pls /\ resume \in resumes /\ extraArgs \in extras
    /\ sigsLeft \in sigs /\ faults \in flt
    /\ target = EmptyStr /\ containers = <<>>
    /\ InitLocals

InitStart(names, flags, envs, wsEnvs, trees, pls, resumes, extras, sigs, flt) ==
    /\ InitRun(names, flags, envs, wsEnvs, trees, pls, resumes, extras, sigs, flt)
    /\ envContainerName = EmptyStr /\ isTerminal = FALSE
    /\ HostIs(PlainHost) /\ softFaults = FALSE /\ sessionCommits = FALSE
    /\ claudeFile = "untrusted"

InitExec(wsEnvs, trees, sigs, flt) ==
    /\ HostIs(PlainHost) /\ softFaults = FALSE /\ sessionCommits = FALSE
    /\ claudeFile = "untrusted"
    /\ cmd = "exec" /\ pc = "execWorkspace"
    /\ target \in Targets /\ containers \in ContainerLists
    /\ isTerminal \in BOOLEAN
    /\ envBuildWs \in wsEnvs /\ fsDirs \in trees
    /\ sigsLeft \in sigs /\ faults \in flt
    /\ name = EmptyStr /\ vcsFlag = "" /\ envVCS = "" /\ envContainerName = EmptyStr
    /\ ports = <<>> /\ resume = EmptyStr /\ extraArgs = <<>>
    /\ InitLocals

\* Host trees used where the directory walk is not the subject: no marker,
\* a git repository at the working directory, a jj repository one level up.
PlainTrees == { {}, {Join(Cwd, GIT)}, {Join(Dir(Cwd), JJ)} }

\* Sessions of every kind (none, git, jj; named and unnamed) under signals.
InitLifecycle ==
    InitStart(Names, {"", "git", "jj"}, {""}, {NoPath}, PlainTrees,
              {<< <<"8080", ":", "80">> >>}, {EmptyStr}, {<<"bash">>},
              {0, MaxSignals}, {TRUE})

\* Every combination of --port list, --resume and trailing command.
InitArgs ==
    InitStart({<<"a">>}, {"git"}, {""}, {NoPath}, {{}},
              PortLists, ResumeValues, ExtraArgsValues, {0}, {FALSE})

\* Every combination of --vcs, DEVCONTAINER_VCS, BUILD_WORKSPACE_DIRECTORY and
\* marker directories on the way from "/" to the working directory.
InitVCS ==
    InitStart({<<"a">>}, VCSValues, VCSValues, {NoPath, Cwd}, SUBSET MarkerDirs,
              {<<>>}, {EmptyStr}, {<<>>}, {0}, {FALSE})

\* Hosts for the mount plan: a jj repository with a git repository beside
\* it, optional directories under the home directory, a git repository
\* outside every workspace
Colocated == {Join(Dir(Cwd), JJ), Join(Dir(Cwd), GIT)}
OutsideGit == Comps(<<"srv", "git">>)
HomeDirs ==
    { HomeDir \o Comps(<<".config", "gh">>), HomeDir \o Comps(<<".config", "jj">>),
      HomeDir \o Comps(<<".ssh">>), OutsideGit }
MountTrees == {t \cup h : t \in PlainTrees \cup {Colocated}, h \in {{}, HomeDirs}}
HostFiles ==
    { Join(Cwd, <<"MODULE.bazel">>), Join(Dir(Cwd), <<"MODULE.bazel">>),
      HomeDir \o Comps(<<".gitconfig">>) }
GitTargets ==
    { NoTarget,
      [present |-> TRUE, abs |-> FALSE, path |-> Comps(<<"git">>)],
      [present |-> TRUE, abs |-> FALSE, path |-> Comps(<<"..", "..", "..", ".git">>)],
      [present |-> TRUE, abs |-> TRUE, path |-> OutsideGit] }
AllHosts ==
    [docker : BOOLEAN, ssh : {NoPath, Comps(<<"run", "agent.sock">>)},
     files : {{}, HostFiles}, sockets : {{}, {DockerSock}}, target : GitTargets]
\* hosts where /var/run/docker.sock is a regular file
NoSocketHosts == {[PlainHost EXCEPT !.docker = d, !.files = {DockerSock}] : d \in BOOLEAN}
\* a git_target is tried on an otherwise plain host
Hosts ==
    {h \in AllHosts : h.target # NoTarget => [h EXCEPT !.target = NoTarget] = PlainHost}
    \cup NoSocketHosts
ContainerNameEnvs == {EmptyStr, <<"mybox">>}

\* Every host and naming combination, for the mount plan and the command line.
InitMounts ==
    /\ InitRun(Names, {""}, {""}, {NoPath}, MountTrees,
               {<<>>}, {EmptyStr}, {<<>>}, {0}, {FALSE})
    /\ envContainerName \in ContainerNameEnvs /\ isTerminal \in BOOLEAN
    /\ \E h \in Hosts : HostIs(h)
    /\ softFaults = FALSE /\ sessionCommits = FALSE
    /\ claudeFile = "untrusted"

\* Sessions whose best-effort commands may fail and whose branch may have
\* moved away from HEAD.
InitCleanup ==
    /\ InitRun({<<"a">>}, {"git", "jj"}, {""}, {NoPath}, {{}},
               {<<>>}, {EmptyStr}, {<<>>}, {0}, {TRUE})
    /\ envContainerName = EmptyStr /\ isTerminal = FALSE
    /\ HostIs(PlainHost) /\ softFaults = TRUE /\ sessionCommits \in BOOLEAN
    /\ claudeFile = "untrusted"

\* Every state of ~/.claude.json, with writes that may fail.
ClaudeFiles == {"absent", "unreadable", "malformed", "null", "untrusted", "trusted"}
InitTrust ==
    /\ InitRun({<<"a">>}, {""}, {""}, {NoPath}, {{}, {Join(Cwd, GIT)}},
               {<<>>}, {EmptyStr}, {<<>>}, {0}, {FALSE})
    /\ envContainerName = EmptyStr /\ isTerminal = FALSE
    /\ HostIs(PlainHost) /\ softFaults = TRUE /\ sessionCommits = FALSE
    /\ claudeFile \in ClaudeFiles

\* Where a MODULE.bazel may be: at the working directory and above it, at the
\* working directory only, in the directory of the isolated copy only.
ManifestFiles ==
    { HostFiles, {Join(Cwd, <<"MODULE.bazel">>)},
      {Join(Join(TempDir, Prefix \o <<"a">>), <<"MODULE.bazel">>)} }

\* Repositories with a MODULE.bazel, where bazel and os.CreateTemp may fail.
InitBazel ==
    /\ InitRun({<<"a">>}, {""}, {""}, {NoPath}, PlainTrees,
               {<<>>}, {EmptyStr}, {<<>>}, {0}, BOOLEAN)
    /\ envContainerName = EmptyStr /\ isTerminal = FALSE
    /\ \E f \in ManifestFiles : HostIs([PlainHost EXCEPT !.files = f])
    /\ softFaults = TRUE /\ sessionCommits = FALSE
    /\ claudeFile = "absent"

\* exec from every place start is tried from in InitVCS.
InitScope ==
    /\ InitExec({NoPath, Cwd}, SUBSET MarkerDirs, {0}, {FALSE})
    /\ target = EmptyStr /\ containers = << <<"devcontainer-", "b">> >>
    /\ isTerminal = FALSE

\* A --name that holds a path separator.
InitNames ==
    InitStart({<<"a", "/", "b">>}, {"git", "jj"}, {""}, {NoPath}, {{}},
              {<<>>}, {EmptyStr}, {<<>>}, {0}, {FALSE})

Init ==
    \/ InitNames
    \/ InitScope
    \/ InitTrust
    \/ InitBazel
    \/ InitLifecycle
    \/ InitArgs
    \/ InitVCS
    \/ InitMounts
    \/ InitCleanup
    \/ InitExec({NoPath}, {{}}, {0, MaxSignals}, {TRUE})

\* ------------------------------------------------------- pure helpers
isDir(path) == path \in fsDirs

\* findVCSRootFrom stopping at the parent instead of walking to the root
findVCSRootOneLevel(dir, cur) ==
    IF isDir(Join(cur, JJ)) \/ isDir(Join(cur, GIT)) THEN cur
    ELSE LET parent == Dir(cur)
         IN IF isDir(Join(parent, JJ)) \/ isDir(Join(parent, GIT)) THEN parent
            ELSE dir

\* findVCSRoot: walk up from dir to the first directory holding .jj or .git
RECURSIVE findVCSRootFrom(_, _)
findVCSRootFrom(dir, cur) ==
    IF isDir(Join(cur, JJ)) \/ isDir(Join(cur, GIT)) THEN cur
    ELSE LET parent == Dir(cur)
         IN IF parent = cur THEN dir ELSE findVCSRootFrom(dir, parent)

findVCSRoot(dir) == findVCSRootFrom(dir, dir)

envOrDefault(v, def) == IF v # EmptyStr THEN v ELSE def

\* ResolveVCSKind with the environment consulted before the flag
ResolveVCSKindEnvFirst(flag, env, ws) ==
    LET v1 == IF env = "" THEN flag ELSE env
    IN IF v1 # "" THEN v1
       ELSE IF isDir(Join(ws, JJ)) THEN "jj"
       ELSE IF isDir(Join(ws, GIT)) THEN "git"
       ELSE ""

\* ResolveVCSKind that looks for .git before .jj
ResolveVCSKindGitFirst(flag, env, ws) ==
    LET v1 == IF flag = "" THEN env ELSE flag
    IN IF v1 # "" THEN v1
       ELSE IF isDir(Join(ws, GIT)) THEN "git"
       ELSE IF isDir(Join(ws, JJ)) THEN "jj"
       ELSE ""

\* VCS resolution: flag > env > auto-detect in the workspace directory
ResolveVCSKind(flag, env, ws) ==
    LET v1 == IF flag = "" THEN env ELSE flag
    IN IF v1 # "" THEN v1
       ELSE IF isDir(Join(ws, JJ)) THEN "jj"
       ELSE IF isDir(Join(ws, GIT)) THEN "git"
       ELSE ""

PortError(p) ==
    LET parts == SplitN2(p)
    IN IF Len(parts) # 2 THEN Err("invalid port format")
       ELSE IF ~AtoiOK(parts[1]) THEN Err("invalid host port")
       ELSE Err("invalid container port")

Alive == procState = "running"

\* what an external command, a system call or the child may do in this run
Outcomes == IF faults THEN BOOLEAN ELSE {TRUE}
SoftOutcomes == IF softFaults THEN BOOLEAN ELSE {TRUE}
OutcomesOf(good, bad) == IF faults THEN {good} \cup bad ELSE {good}

\* `return err` from run: the deferred calls and main follow
Return(e) == pc' = "return" /\ retErr' = e

\* CheckResume testing the trimmed resume value
CheckResumeTrimmed ==
    /\ Alive /\ pc = "checkResume"
    /\ IF TrimSpace(resume) # EmptyStr /\ Len(extraArgs) > 0
       THEN Return(Err("cannot combine --resume with extra command arguments"))
       ELSE pc' = "validatePorts" /\ retErr' = retErr
    /\ UNCHANGED <<inputs, locals, exitCode, cleanupRet, sigv, childv, world, proc>>

\* ------------------------------------------------------ start: run()
CheckResume ==
    /\ Alive /\ pc = "checkResume"
    /\ IF resume # EmptyStr /\ Len(extraArgs) > 0
       THEN Return(Err("cannot combine --resume with extra command arguments"))
       ELSE pc' = "validatePorts" /\ retErr' = retErr
    /\ UNCHANGED <<inputs, locals, exitCode, cleanupRet, sigv, childv, world, proc>>

ValidatePorts ==
    /\ Alive /\ pc = "validatePorts"
    /\ LET bad == FirstBadPort(ports, 1)
       IN IF bad # 0
          THEN Return(PortError(ports[bad]))
          ELSE pc' = "resolveWorkspace" /\ retErr' = retErr
    /\ UNCHANGED <<inputs, locals, exitCode, cleanupRet, sigv, childv, world, proc>>

ResolveWorkspace ==
    /\ Alive /\ pc = "resolveWorkspace"
    /\ containerName' = envOrDefault(envContainerName, <<"claude-dev">>)
    /\ IF envBuildWs # NoPath
       THEN /\ workspaceDir' = envBuildWs
            /\ pc' = "resolveVCS" /\ retErr' = retErr
       ELSE \E getwdOK \in Outcomes :
              IF getwdOK
              THEN /\ workspaceDir' = findVCSRoot(Cwd)
                   /\ pc' = "resolveVCS" /\ retErr' = retErr
              ELSE /\ workspaceDir' = NoPath
                   /\ Return(Err("getting working directory"))
    /\ UNCHANGED <<inputs, vcs, worktreeDir, originalWorkspace, branchName,
                   worktreeName, suffix, execName, plan, exitCode, cleanupRet,
                   sigv, childv, world, proc>>

ResolveVCS ==
    /\ Alive /\ pc = "resolveVCS"
    /\ vcs' = ResolveVCSKind(vcsFlag, envVCS, workspaceDir)
    /\ IF vcs' # "" /\ vcs' # "git" /\ vcs' # "jj"
       THEN Return(Err("unknown VCS type"))
       ELSE pc' = "prepareWorktree" /\ retErr' = retErr
    /\ UNCHANGED <<inputs, workspaceDir, worktreeDir, originalWorkspace,
                   branchName, worktreeName, suffix, containerName, execName, plan,
                   exitCode, cleanupRet, sigv, childv, world, proc>>

\* PrepareWorktree without the test for a VCS kind of none
PrepareWorktreeAlways ==
    /\ Alive /\ pc = "prepareWorktree"
    /\ suffix' = name
    /\ worktreeDir' = Join(TempDir, Prefix \o name)
    /\ effects' = Append(effects, "RemoveAll worktreeDir")
    /\ containerName' = Prefix \o suffix'
    /\ pc' = "createCopy" /\ retErr' = retErr
    /\ UNCHANGED <<inputs, workspaceDir, vcs, originalWorkspace, branchName,
                   worktreeName, execName, plan, exitCode, cleanupRet, sigv, childv,
                   copyState, destroyCalls, contextDir, hostv, proc>>

\* lines 300-301, 305-315: the directory of the isolated copy of a session
\* with --name n and temporary-directory draw rnd
worktreeDirOf(n, rnd) == JoinStr(TempDir, Prefix \o (IF n # EmptyStr THEN n ELSE rnd))

\* lines 263, 298-317: the container name of a session with --name n, VCS
\* kind v, CONTAINER_NAME envName and temporary-directory draw rnd
containerNameOf(n, v, envName, rnd) ==
    IF v = "" THEN envOrDefault(envName, <<"claude-dev">>)
    ELSE Prefix \o (IF n # EmptyStr THEN n ELSE rnd)

\* lines 298-317: choose the worktree directory and the container name
PrepareWorktree ==
    /\ Alive /\ pc = "prepareWorktree"
    /\ IF vcs = ""
       THEN /\ pc' = "createContext" /\ retErr' = retErr
            /\ UNCHANGED <<suffix, worktreeDir, containerName, effects>>
       ELSE IF name # EmptyStr
       THEN /\ suffix' = name
            /\ worktreeDir' = JoinStr(TempDir, Prefix \o name)
            /\ effects' = Append(effects, "RemoveAll worktreeDir")
            /\ containerName' = Prefix \o suffix'
            /\ pc' = "createCopy" /\ retErr' = retErr
       ELSE \E mkdirOK \in Outcomes, rnd \in RandSuffixes :
              IF mkdirOK
              THEN LET dir == Join(TempDir, Prefix \o rnd)
                   IN /\ effects' = effects \o <<"MkdirTemp worktreeDir", "Remove worktreeDir">>
                      /\ suffix' = TrimPrefix(Base(dir), Prefix)
                      /\ worktreeDir' = dir
                      /\ containerName' = Prefix \o suffix'
                      /\ pc' = "createCopy" /\ retErr' = retErr
              ELSE /\ Return(Err("creating temp dir"))
                   /\ UNCHANGED <<suffix, worktreeDir, containerName, effects>>
    /\ UNCHANGED <<inputs, workspaceDir, vcs, originalWorkspace, branchName,
                   worktreeName, execName, plan, exitCode, cleanupRet, sigv, childv,
                   copyState, destroyCalls, contextDir, hostv, proc>>

\* CreateCopy that leaves workspaceDir at the caller's repository
CreateCopyInPlace ==
    /\ Alive /\ pc = "createCopy"
    /\ effects' = Append(effects, IF vcs = "git" THEN "git worktree add"
                                  ELSE "jj workspace add")
    /\ branchName' = IF vcs = "git" THEN Prefix \o suffix ELSE branchName
    /\ worktreeName' = IF vcs = "git" THEN worktreeName ELSE Prefix \o suffix
    /\ copyState' = "exists"
    /\ branchState' = IF vcs = "git" THEN "merged" ELSE branchState
    /\ originalWorkspace' = workspaceDir
    /\ pc' = "createContext"
    /\ UNCHANGED <<inputs, workspaceDir, vcs, worktreeDir, suffix, containerName,
                   execName, plan, exitCode, retErr, cleanupRet, sigv, childv,
                   destroyCalls, contextDir, bazelRC, ignored, removedName,
                   probev, proc>>

\* CreateCopy whose failure branch calls cleanupWorktree before returning
CreateCopyCleanupOnFailure ==
    /\ Alive /\ pc = "createCopy"
    /\ effects' = Append(effects, IF vcs = "git" THEN "git worktree add"
                                  ELSE "jj workspace add")
    /\ branchName' = IF vcs = "git" THEN Prefix \o suffix ELSE branchName
    /\ worktreeName' = IF vcs = "git" THEN worktreeName ELSE Prefix \o suffix
    /\ \E addOK \in Outcomes :
         IF addOK
         THEN /\ copyState' = "exists"
              /\ branchState' = IF vcs = "git" THEN "merged" ELSE branchState
              /\ originalWorkspace' = workspaceDir
              /\ workspaceDir' = worktreeDir
              /\ pc' = "createContext"
              /\ UNCHANGED <<retErr, cleanupRet>>
         ELSE /\ retErr' = Err(IF vcs = "git" THEN "creating git worktree"
                                             ELSE "creating jj workspace")
              /\ cleanupRet' = "launch"
              /\ pc' = "cleanup"
              /\ UNCHANGED <<copyState, branchState, originalWorkspace, workspaceDir>>
    /\ UNCHANGED <<inputs, vcs, worktreeDir, suffix, containerName, execName, plan,
                   exitCode, sigv, childv, destroyCalls, contextDir, bazelRC,
                   ignored, removedName,
                   probev, proc>>

\* lines 319-334: git worktree add / jj workspace add
CreateCopy ==
    /\ Alive /\ pc = "createCopy"
    /\ \E addOK \in Outcomes :
         /\ IF vcs = "git"
            THEN /\ branchName' = Prefix \o suffix
                 /\ worktreeName' = worktreeName
                 /\ effects' = Append(effects, "git worktree add")
            ELSE /\ worktreeName' = Prefix \o suffix
                 /\ branchName' = branchName
                 /\ effects' = Append(effects, "jj workspace add")
         /\ IF addOK
            THEN /\ copyState' = "exists"
                 /\ branchState' = IF vcs = "git" THEN "merged" ELSE branchState
                 /\ originalWorkspace' = workspaceDir
                 /\ workspaceDir' = worktreeDir
                 /\ pc' = "createContext" /\ retErr' = retErr
            ELSE /\ Return(Err(IF vcs = "git" THEN "creating git worktree"
                                               ELSE "creating jj workspace"))
                 /\ UNCHANGED <<copyState, branchState, originalWorkspace, workspaceDir>>
    /\ UNCHANGED <<inputs, vcs, worktreeDir, suffix, containerName, execName, plan,
                   exitCode, cleanupRet, sigv, childv, destroyCalls,
                   contextDir, bazelRC, ignored, removedName,
                   probev, proc>>

\* lines 336-348: build context directory, removed by a deferred call
CreateContext ==
    /\ Alive /\ pc = "createContext"
    /\ \E r \in OutcomesOf("ok", {"mkdirFail", "writeFail"}) :
         CASE r = "mkdirFail" ->
                /\ Return(Err("creating context dir"))
                /\ UNCHANGED <<contextDir, effects>>
           [] r = "writeFail" ->
                /\ contextDir' = "exists"
                /\ effects' = Append(effects, "MkdirTemp contextDir")
                /\ Return(Err("writing Dockerfile"))
           [] r = "ok" ->
                /\ contextDir' = "exists"
                /\ effects' = Append(effects, "MkdirTemp contextDir")
                /\ pc' = "lookupUser" /\ retErr' = retErr
    /\ UNCHANGED <<inputs, locals, exitCode, cleanupRet, sigv, childv,
                   copyState, destroyCalls, hostv, proc>>

\* lines 350-371: user.Current and os.UserHomeDir
LookupUser ==
    /\ Alive /\ pc = "lookupUser"
    /\ \E r \in OutcomesOf("ok", {"userFail", "homeFail"}) :
         CASE r = "userFail" -> Return(Err("getting current user"))
           [] r = "homeFail" -> Return(Err("getting home dir"))
           [] r = "ok" -> pc' = "buildImage" /\ retErr' = retErr
    /\ UNCHANGED <<inputs, locals, exitCode, cleanupRet, sigv, childv, world, proc>>

\* lines 373-382: docker build
BuildImage ==
    /\ Alive /\ pc = "buildImage"
    /\ effects' = Append(effects, "docker build")
    /\ \E buildOK \in Outcomes :
         IF buildOK
         THEN pc' = "removeStale" /\ retErr' = retErr
         ELSE Return(Err("docker build"))
    /\ UNCHANGED <<inputs, locals, exitCode, cleanupRet, sigv, childv,
                   copyState, destroyCalls, contextDir, hostv, proc>>

\* RemoveStale that treats a failed docker rm -f as fatal
RemoveStaleChecked ==
    /\ Alive /\ pc = "removeStale"
    /\ effects' = Append(effects, "docker rm -f")
    /\ removedName' = containerName
    /\ \E rmOK \in SoftOutcomes :
         IF rmOK
         THEN pc' = "trust" /\ retErr' = retErr /\ ignored' = ignored
         ELSE /\ Return(Err("removing container"))
              /\ ignored' = ignored \cup {"docker rm -f"}
    /\ UNCHANGED <<inputs, locals, exitCode, cleanupRet, sigv, childv,
                   copyState, destroyCalls, contextDir, bazelRC, branchState,
                   probev, proc>>

\* lines 384-388: docker rm -f, result ignored
RemoveStale ==
    /\ Alive /\ pc = "removeStale"
    /\ effects' = Append(effects, "docker rm -f")
    /\ removedName' = containerName
    /\ \E rmOK \in SoftOutcomes :
         ignored' = IF rmOK THEN ignored ELSE ignored \cup {"docker rm -f"}
    /\ pc' = "trust"
    /\ UNCHANGED <<inputs, locals, exitCode, retErr, cleanupRet, sigv, childv,
                   copyState, destroyCalls, contextDir, bazelRC, branchState,
                   probev, proc>>

\* what os.WriteFile can do to an existing file: replace its content, fail
\* to open it, or fail after truncating it
WriteOutcomes == IF softFaults THEN {"ok", "openFail", "writeFail"} ELSE {"ok"}

\* TrustWorkspace whose error ends run
TrustWorkspaceFatal ==
    /\ Alive /\ pc = "trust"
    /\ IF claudeFile = "absent"
       THEN pc' = "planMounts" /\ UNCHANGED <<claudeFile, effects, retErr>>
       ELSE IF claudeFile \in {"untrusted", "trusted"}
       THEN /\ claudeFile' = "trusted"
            /\ effects' = Append(effects, "write .claude.json")
            /\ pc' = "planMounts" /\ retErr' = retErr
       ELSE /\ Return(Err("updating .claude.json"))
            /\ UNCHANGED <<claudeFile, effects>>
    /\ UNCHANGED <<inputs, locals, exitCode, cleanupRet, sigv, childv,
                   copyState, destroyCalls, contextDir, bazelRC, ignored,
                   branchState, removedName, bazelDir, proc>>

\* lines 390-395 and 589-625: trustWorkspace; an error is only a warning.
\* A file holding the JSON value null decodes into a nil map without error
\* and the assignment into it at line 603 panics: the deferred removal of the
\* build context runs and the process ends with status 2.
TrustWorkspace ==
    /\ Alive /\ pc = "trust"
    /\ CASE claudeFile = "absent" ->
              /\ pc' = "planMounts"
              /\ UNCHANGED <<claudeFile, effects, contextDir, proc>>
         [] claudeFile \in {"unreadable", "malformed", "truncated"} ->
              /\ effects' = Append(effects, "warning .claude.json")
              /\ pc' = "planMounts"
              /\ UNCHANGED <<claudeFile, contextDir, proc>>
         [] claudeFile = "null" ->
              /\ effects' = Append(effects, "RemoveAll contextDir")
              /\ contextDir' = "removed"
              /\ procState' = "panicked" /\ procExit' = 2 /\ errPrinted' = TRUE
              /\ pc' = "panic"
              /\ claudeFile' = claudeFile
         [] claudeFile \in {"untrusted", "trusted"} ->
              /\ \E w \in WriteOutcomes :
                   /\ claudeFile' = IF w = "ok" THEN "trusted"
                                    ELSE IF w = "writeFail" THEN "truncated"
                                    ELSE claudeFile
                   /\ effects' = Append(effects, IF w = "ok" THEN "write .claude.json"
                                                 ELSE "warning .claude.json")
              /\ pc' = "planMounts"
              /\ UNCHANGED <<contextDir, proc>>
    /\ UNCHANGED <<inputs, locals, exitCode, retErr, cleanupRet, sigv, childv,
                   copyState, destroyCalls, bazelRC, ignored, branchState,
                   removedName, bazelDir>>

\* ------------------------------------------------- mounts and arguments
\* addMount (lines 401-407): one -v argument
Mount(src, dst, ro) == [src |-> src, dst |-> dst, ro |-> ro]

\* a mount of a path under the home directory at a path under devHome
HomeMount(srcRel, dstRel, ro) ==
    Mount(HomeDir \o Comps(srcRel), DevHome \o Comps(dstRel), ro)

fileExists(path) == path \in fsFiles \cup fsDirs \cup fsSockets
isSocket(path) == path \in fsSockets

\* what `bazel info output_base` prints, and the name os.CreateTemp returns
BazelOutputBase == Comps(<<"home", "u", ".cache", "bazel", "ob">>)
\* the random part of the name differs from run to run
TempNames == {<<"t1">>, <<"t2">>}
BazelRCPath(r) == Join(TempDir, <<"bazel-rc-">> \o r)
SSHAgentSock == Comps(<<"tmp", "ssh-agent.sock">>)

\* lines 409-418: the workspace and the toolchain caches, always mounted
BaseMounts ==
    << Mount(workspaceDir, Comps(<<"workspace">>), FALSE),
       HomeMount(<<".cache", "bazelisk">>, <<".cache", "bazelisk">>, TRUE),
       HomeMount(<<".cargo">>, <<".cargo">>, TRUE),
       HomeMount(<<".rustup">>, <<".rustup">>, TRUE),
       HomeMount(<<"go">>, <<"go">>, TRUE),
       HomeMount(<<"dev", "go">>, <<"gopath">>, FALSE),
       HomeMount(<<".npm">>, <<".npm">>, TRUE),
       HomeMount(<<".cache", "pnpm">>, <<".cache", "pnpm">>, TRUE),
       HomeMount(<<".claude">>, <<".claude">>, FALSE),
       HomeMount(<<".claude.json">>, <<".claude.json">>, FALSE) >>

\* bazelWorkspace that is the mounted workspace, the isolated copy when there is one
bazelWorkspaceCopy == workspaceDir

\* lines 421-424
bazelWorkspace == IF originalWorkspace # NoPath THEN originalWorkspace ELSE workspaceDir
\* line 425
UsesBazel == fileExists(Join(bazelWorkspace, <<"MODULE.bazel">>))

\* lines 434-435
BazelMounts(r) ==
    << Mount(BazelOutputBase, BazelOutputBase, FALSE),
       Mount(BazelRCPath(r), Comps(<<"etc", "bazel.bazelrc">>), TRUE) >>

\* SocketMounts that does not look at the --docker flag
SocketMountsUnflagged ==
    IF isSocket(DockerSock)
    THEN << Mount(DockerSock, DockerSock, FALSE) >> ELSE <<>>

\* lines 442-445
SocketMounts ==
    IF docker /\ isSocket(DockerSock)
    THEN << Mount(DockerSock, DockerSock, FALSE) >> ELSE <<>>

\* lines 447-459
ConditionalMounts ==
    (IF fileExists(HomeDir \o Comps(<<".gitconfig">>))
     THEN << HomeMount(<<".gitconfig">>, <<".gitconfig">>, TRUE) >> ELSE <<>>)
    \o (IF isDir(HomeDir \o Comps(<<".config", "gh">>))
        THEN << HomeMount(<<".config", "gh">>, <<".config", "gh">>, TRUE) >> ELSE <<>>)
    \o (IF isDir(HomeDir \o Comps(<<".config", "jj">>))
        THEN << HomeMount(<<".config", "jj">>, <<".config", "jj">>, TRUE) >> ELSE <<>>)
    \o (IF isDir(HomeDir \o Comps(<<".ssh">>))
        THEN << HomeMount(<<".ssh">>, <<".ssh">>, TRUE) >> ELSE <<>>)

\* lines 461-465
SSHMounts ==
    IF envSSHSock # NoPath THEN << Mount(envSSHSock, SSHAgentSock, FALSE) >> ELSE <<>>
SSHEnv ==
    IF envSSHSock # NoPath THEN << "SSH_AUTH_SOCK=/tmp/ssh-agent.sock" >> ELSE <<>>

\* JJGitTargetMounts without the test that the target is a directory
JJGitTargetMountsUnprobed ==
    IF ~gitTarget.present THEN <<>>
    ELSE LET store == originalWorkspace \o Comps(<<".jj", "repo", "store">>)
             jjRepo == Clean(originalWorkspace \o Comps(<<".jj", "repo">>))
             t == Clean(IF gitTarget.abs THEN gitTarget.path
                        ELSE store \o gitTarget.path)
         IN IF ~UnderDir(t, jjRepo) /\ t # jjRepo
            THEN << Mount(t, t, FALSE) >> ELSE <<>>

\* lines 476-489: the git repository a jj store points to, when it lies
\* outside .jj/repo and is a directory
JJGitTargetMounts ==
    IF ~gitTarget.present THEN <<>>
    ELSE LET store == originalWorkspace \o Comps(<<".jj", "repo", "store">>)
             jjRepo == Clean(originalWorkspace \o Comps(<<".jj", "repo">>))
             t == Clean(IF gitTarget.abs THEN gitTarget.path
                        ELSE store \o gitTarget.path)
         IN IF ~UnderDir(t, jjRepo) /\ t # jjRepo /\ isDir(t)
            THEN << Mount(t, t, FALSE) >> ELSE <<>>

\* VCSMounts that mounts the metadata store only when it is a directory
VCSMountsProbed ==
    IF worktreeDir = NoPath THEN <<>>
    ELSE IF vcs = "git" /\ isDir(originalWorkspace \o Comps(<<".git">>))
    THEN << Mount(originalWorkspace \o Comps(<<".git">>),
                  StrCat(originalWorkspace, <<".git">>), FALSE) >>
    ELSE IF vcs = "jj" /\ isDir(originalWorkspace \o Comps(<<".jj", "repo">>))
    THEN << Mount(originalWorkspace \o Comps(<<".jj", "repo">>),
                  StrCat(originalWorkspace, <<".jj", "repo">>), FALSE) >>
         \o JJGitTargetMounts
    ELSE <<>>

\* lines 467-491: the original repository's VCS metadata
VCSMounts ==
    IF worktreeDir = NoPath THEN <<>>
    ELSE IF vcs = "git"
    THEN << Mount(originalWorkspace \o Comps(<<".git">>),
                  StrCat(originalWorkspace, <<".git">>), FALSE) >>
    ELSE IF vcs = "jj"
    THEN << Mount(originalWorkspace \o Comps(<<".jj", "repo">>),
                  StrCat(originalWorkspace, <<".jj", "repo">>), FALSE) >>
         \o JJGitTargetMounts
    ELSE <<>>

\* PlanMounts that puts the docker socket ahead of the workspace
PlanMountsSocketFirst ==
    /\ Alive /\ pc = "planMounts"
    /\ \E infoOK \in SoftOutcomes, tmpOK \in SoftOutcomes, r \in TempNames :
         LET rc == UsesBazel /\ infoOK /\ tmpOK
         IN /\ mounts' = SocketMounts \o BaseMounts
                         \o (IF rc THEN BazelMounts(r) ELSE <<>>) \o ConditionalMounts \o SSHMounts
                         \o VCSMounts
            /\ bazelRC' = IF rc THEN "exists" ELSE bazelRC
            /\ bazelDir' = IF UsesBazel THEN bazelWorkspace ELSE bazelDir
            /\ ignored' = ignored
                  \cup (IF UsesBazel /\ ~infoOK
                        THEN {"bazel info output_base"} ELSE {})
                  \cup (IF UsesBazel /\ infoOK /\ ~tmpOK
                        THEN {"CreateTemp bazel-rc"} ELSE {})
            /\ effects' = effects
                  \o (IF UsesBazel THEN <<"bazel info output_base">> ELSE <<>>)
                  \o (IF UsesBazel /\ infoOK THEN <<"CreateTemp bazel-rc">> ELSE <<>>)
    /\ envArgs' = SSHEnv
    /\ pc' = "dockerArgs"
    /\ UNCHANGED <<inputs, workspaceDir, vcs, worktreeDir, originalWorkspace,
                   branchName, worktreeName, suffix, containerName, execName,
                   dockerArgs, exitCode, retErr, cleanupRet, sigv, childv,
                   copyState, destroyCalls, contextDir, branchState,
                   removedName, claudeFile, proc>>

\* lines 397-491: the -v and -e arguments
PlanMounts ==
    /\ Alive /\ pc = "planMounts"
    /\ \E infoOK \in SoftOutcomes, tmpOK \in SoftOutcomes, r \in TempNames :
         LET rc == UsesBazel /\ infoOK /\ tmpOK
         IN /\ mounts' = BaseMounts \o (IF rc THEN BazelMounts(r) ELSE <<>>)
                         \o SocketMounts \o ConditionalMounts \o SSHMounts
                         \o VCSMounts
            /\ bazelRC' = IF rc THEN "exists" ELSE bazelRC
            /\ bazelDir' = IF UsesBazel THEN bazelWorkspace ELSE bazelDir
            /\ ignored' = ignored
                  \cup (IF UsesBazel /\ ~infoOK
                        THEN {"bazel info output_base"} ELSE {})
                  \cup (IF UsesBazel /\ infoOK /\ ~tmpOK
                        THEN {"CreateTemp bazel-rc"} ELSE {})
            /\ effects' = effects
                  \o (IF UsesBazel THEN <<"bazel info output_base">> ELSE <<>>)
                  \o (IF UsesBazel /\ infoOK THEN <<"CreateTemp bazel-rc">> ELSE <<>>)
    /\ envArgs' = SSHEnv
    /\ pc' = "dockerArgs"
    /\ UNCHANGED <<inputs, workspaceDir, vcs, worktreeDir, originalWorkspace,
                   branchName, worktreeName, suffix, containerName, execName,
                   dockerArgs, exitCode, retErr, cleanupRet, sigv, childv,
                   copyState, destroyCalls, contextDir, branchState,
                   removedName, claudeFile, proc>>

\* sourceWorkspace that is the mounted workspace
sourceWorkspaceMounted == workspaceDir

\* lines 493-497
sourceWorkspace == IF originalWorkspace # NoPath THEN originalWorkspace ELSE workspaceDir

\* Command that passes the resume value on whatever it is
CommandAlwaysValue ==
    IF resume # EmptyStr
    THEN << <<"claude">>, <<"--dangerously-skip-permissions">>, <<"--resume">>, resume >>
    ELSE [i \in 1..Len(extraArgs) |-> <<extraArgs[i]>>]

\* lines 518-525: what runs in the container
Command ==
    IF resume # EmptyStr
    THEN << <<"claude">>, <<"--dangerously-skip-permissions">>, <<"--resume">> >>
         \o (IF TrimSpace(resume) # EmptyStr THEN <<resume>> ELSE <<>>)
    ELSE [i \in 1..Len(extraArgs) |-> <<extraArgs[i]>>]

\* BuildDockerArgs where a later -p replaces the earlier ones
BuildDockerArgsLastPort ==
    /\ Alive /\ pc = "dockerArgs"
    /\ dockerArgs' = [sub |-> "run", label |-> sourceWorkspace,
                      name |-> containerName, tty |-> isTerminal,
                      mounts |-> mounts, env |-> envArgs, ports |-> IF ports = <<>> THEN <<>> ELSE <<ports[Len(ports)]>>,
                      image |-> "claude-devcontainer", command |-> Command]
    /\ pc' = "notify"
    /\ UNCHANGED <<inputs, workspaceDir, vcs, worktreeDir, originalWorkspace,
                   branchName, worktreeName, suffix, containerName, execName,
                   mounts, envArgs, exitCode, retErr, cleanupRet, sigv, childv,
                   world, proc>>

\* lines 499-525: the docker run command line
BuildDockerArgs ==
    /\ Alive /\ pc = "dockerArgs"
    /\ dockerArgs' = [sub |-> "run", label |-> sourceWorkspace,
                      name |-> containerName, tty |-> isTerminal,
                      mounts |-> mounts, env |-> envArgs, ports |-> ports,
                      image |-> "claude-devcontainer", command |-> Command]
    /\ pc' = "notify"
    /\ UNCHANGED <<inputs, workspaceDir, vcs, worktreeDir, originalWorkspace,
                   branchName, worktreeName, suffix, containerName, execName,
                   mounts, envArgs, exitCode, retErr, cleanupRet, sigv, childv,
                   world, proc>>

\* NotifySignals that leaves the default disposition in place
NotifySignalsOff ==
    /\ Alive /\ pc = "notify"
    /\ pc' = "startDocker"
    /\ UNCHANGED <<inputs, locals, exitCode, retErr, cleanupRet, sigv, childv, world,
                   proc>>

\* lines 533-535: signal.Notify(sigCh, SIGINT, SIGTERM)
NotifySignals ==
    /\ Alive /\ pc = "notify"
    /\ notifyOn' = TRUE
    /\ pc' = "startDocker"
    /\ UNCHANGED <<inputs, locals, exitCode, retErr, cleanupRet, sigCh, chClosed,
                   relayPc, sigsLeft, delivered, forwarded, lateForward, childv, world,
                   proc>>

\* StartDocker with the launch-failure branch returning at once
StartDockerNoCleanup ==
    /\ Alive /\ pc = "startDocker"
    /\ effects' = Append(effects, "docker run")
    /\ \E startOK \in Outcomes :
         IF startOK
         THEN /\ child' = "running"
              /\ pc' = "spawnRelay"
              /\ UNCHANGED <<retErr, cleanupRet>>
         ELSE /\ child' = child
              /\ cleanupRet' = cleanupRet
              /\ Return(Err("starting docker"))
    /\ UNCHANGED <<inputs, locals, exitCode, sigv, childStatus, copyState,
                   destroyCalls, contextDir, hostv, proc>>

\* lines 537-540: dockerCmd.Start(); on failure clean up and return the error
StartDocker ==
    /\ Alive /\ pc = "startDocker"
    /\ effects' = Append(effects, "docker run")
    /\ \E startOK \in Outcomes :
         IF startOK
         THEN /\ child' = "running"
              /\ pc' = "spawnRelay"
              /\ UNCHANGED <<retErr, cleanupRet>>
         ELSE /\ child' = child
              /\ cleanupRet' = "launch"
              /\ retErr' = Err("starting docker")
              /\ pc' = "cleanup"
    /\ UNCHANGED <<inputs, locals, exitCode, sigv, childStatus, copyState,
                   destroyCalls, contextDir, hostv, proc>>

\* lines 542-548: go func() { for sig := range sigCh ... }
SpawnRelay ==
    /\ Alive /\ pc = "spawnRelay"
    /\ relayPc' = "loop"
    /\ pc' = "wait"
    /\ UNCHANGED <<inputs, locals, exitCode, retErr, cleanupRet, notifyOn, sigCh,
                   chClosed, sigsLeft, delivered, forwarded, lateForward, childv, world,
                   proc>>

\* (*exec.ExitError).ExitCode(): -1 when the child was killed by a signal
ExitCodeOf(st) == IF st.exited THEN st.code ELSE -1

\* WaitChild that does not block until the child has ended
WaitChildNoBlock ==
    /\ Alive /\ pc = "wait" /\ child \in {"running", "exited"}
    /\ child' = child
    /\ exitCode' = 0
    /\ pc' = "stopSignals"
    /\ UNCHANGED <<inputs, locals, retErr, cleanupRet, sigv, childStatus, world, proc>>

\* lines 550-558: dockerCmd.Wait() returns once the child has exited
WaitChild ==
    /\ Alive /\ pc = "wait" /\ child = "exited"
    /\ child' = "reaped"
    /\ \E otherErr \in {~ok : ok \in Outcomes} :
         IF otherErr
         THEN /\ cleanupRet' = "wait"
              /\ retErr' = Err("running docker")
              /\ pc' = "cleanup"
              /\ exitCode' = exitCode
         ELSE /\ exitCode' = ExitCodeOf(childStatus)
              /\ pc' = "stopSignals"
              /\ UNCHANGED <<retErr, cleanupRet>>
    /\ UNCHANGED <<inputs, locals, sigv, childStatus, world, proc>>

\* line 560: signal.Stop(sigCh)
StopSignals ==
    /\ Alive /\ pc = "stopSignals"
    /\ notifyOn' = FALSE
    /\ pc' = "closeSigCh"
    /\ UNCHANGED <<inputs, locals, exitCode, retErr, cleanupRet, sigCh, chClosed,
                   relayPc, sigsLeft, delivered, forwarded, lateForward, childv, world,
                   proc>>

\* CloseSigCh with a non-zero exit code returned before the cleanup call
CloseSigChEarlyExit ==
    /\ Alive /\ pc = "closeSigCh"
    /\ chClosed' = TRUE
    /\ cleanupRet' = "normal"
    /\ pc' = IF exitCode # 0 THEN "finish" ELSE "cleanup"
    /\ UNCHANGED <<inputs, locals, exitCode, retErr, notifyOn, sigCh, relayPc,
                   sigsLeft, delivered, forwarded, lateForward, childv, world,
                   proc>>

\* lines 561-564: close(sigCh), then the call of cleanupWorktree
CloseSigCh ==
    /\ Alive /\ pc = "closeSigCh"
    /\ chClosed' = TRUE
    /\ cleanupRet' = "normal"
    /\ pc' = "cleanup"
    /\ UNCHANGED <<inputs, locals, exitCode, retErr, notifyOn, sigCh, relayPc,
                   sigsLeft, delivered, forwarded, lateForward, childv, world,
                   proc>>

\* AfterCleanup with the return after the failed Wait missing
AfterCleanupFallsThrough ==
    IF cleanupRet = "normal" THEN "finish"
    ELSE IF cleanupRet = "wait" THEN "stopSignals" ELSE "return"

\* ------------------------------------------------- cleanupWorktree()
\* where the caller continues once cleanupWorktree has returned
AfterCleanup == IF cleanupRet = "normal" THEN "finish" ELSE "return"

\* lines 572-576, 583: the guard and the switch on vcs
CleanupEnter ==
    /\ Alive /\ pc = "cleanup"
    /\ IF worktreeDir = NoPath
       THEN pc' = AfterCleanup /\ destroyCalls' = destroyCalls
       ELSE /\ destroyCalls' = destroyCalls + 1
            /\ pc' = IF vcs = "git" THEN "clGitRemove"
                     ELSE IF vcs = "jj" THEN "clJJForget"
                     ELSE AfterCleanup
    /\ UNCHANGED <<inputs, locals, exitCode, retErr, cleanupRet, sigv, childv,
                   effects, copyState, contextDir, hostv, proc>>

\* line 578: git worktree remove --force, result ignored
CleanupGitRemove ==
    /\ Alive /\ pc = "clGitRemove"
    /\ effects' = Append(effects, "git worktree remove")
    /\ \E removeOK \in Outcomes :
         /\ copyState' = IF removeOK THEN "destroyed" ELSE copyState
         /\ ignored' = IF removeOK THEN ignored
                       ELSE ignored \cup {"git worktree remove"}
    /\ pc' = "clGitMergeBase"
    /\ UNCHANGED <<inputs, locals, exitCode, retErr, cleanupRet, sigv, childv,
                   destroyCalls, contextDir, bazelRC, branchState, removedName,
                   probev, proc>>

\* CleanupGitMergeBase that goes on to git branch -d whatever the test says
CleanupGitMergeBaseUnchecked ==
    /\ Alive /\ pc = "clGitMergeBase"
    /\ effects' = Append(effects, "git merge-base --is-ancestor")
    /\ pc' = "clGitBranchD"
    /\ UNCHANGED <<inputs, locals, exitCode, retErr, cleanupRet, sigv, childv,
                   copyState, destroyCalls, contextDir, hostv, proc>>

\* line 580: git merge-base --is-ancestor branchName HEAD
CleanupGitMergeBase ==
    /\ Alive /\ pc = "clGitMergeBase"
    /\ effects' = Append(effects, "git merge-base --is-ancestor")
    /\ \E ran \in SoftOutcomes :
         LET isAncestor == ran /\ branchState = "merged"
         IN /\ pc' = IF isAncestor THEN "clGitBranchD" ELSE AfterCleanup
            /\ ignored' = IF ran THEN ignored
                          ELSE ignored \cup {"git merge-base --is-ancestor"}
    /\ UNCHANGED <<inputs, locals, exitCode, retErr, cleanupRet, sigv, childv,
                   copyState, destroyCalls, contextDir, bazelRC, branchState,
                   removedName,
                   probev, proc>>

\* git refuses to delete a branch that a linked worktree has checked out
BranchDOutcomes == IF copyState = "exists" THEN {FALSE} ELSE SoftOutcomes

\* line 581: git branch -d, result ignored
CleanupGitBranchD ==
    /\ Alive /\ pc = "clGitBranchD"
    /\ effects' = Append(effects, "git branch -d")
    /\ \E deleteOK \in BranchDOutcomes :
         /\ branchState' = IF deleteOK THEN "deleted" ELSE branchState
         /\ ignored' = IF deleteOK THEN ignored ELSE ignored \cup {"git branch -d"}
    /\ pc' = AfterCleanup
    /\ UNCHANGED <<inputs, locals, exitCode, retErr, cleanupRet, sigv, childv,
                   copyState, destroyCalls, contextDir, bazelRC, removedName,
                   probev, proc>>

\* line 584: jj workspace forget, result ignored
CleanupJJForget ==
    /\ Alive /\ pc = "clJJForget"
    /\ effects' = Append(effects, "jj workspace forget")
    /\ \E forgetOK \in SoftOutcomes :
         ignored' = IF forgetOK THEN ignored ELSE ignored \cup {"jj workspace forget"}
    /\ pc' = "clJJRemoveAll"
    /\ UNCHANGED <<inputs, locals, exitCode, retErr, cleanupRet, sigv, childv,
                   copyState, destroyCalls, contextDir, bazelRC, branchState,
                   removedName,
                   probev, proc>>

\* CleanupJJRemoveAll reporting the failure of os.RemoveAll to run's caller
CleanupJJRemoveAllPropagates ==
    /\ Alive /\ pc = "clJJRemoveAll"
    /\ effects' = Append(effects, "RemoveAll worktreeDir")
    /\ \E removeOK \in SoftOutcomes :
         IF removeOK
         THEN /\ copyState' = "destroyed"
              /\ pc' = AfterCleanup /\ retErr' = retErr
         ELSE /\ copyState' = copyState
              /\ Return(Err("removing workspace"))
    /\ UNCHANGED <<inputs, locals, exitCode, cleanupRet, sigv, childv,
                   destroyCalls, contextDir, hostv, proc>>

\* line 585: os.RemoveAll(worktreeDir)
CleanupJJRemoveAll ==
    /\ Alive /\ pc = "clJJRemoveAll"
    /\ effects' = Append(effects, "RemoveAll worktreeDir")
    /\ \E removeOK \in SoftOutcomes :
         /\ copyState' = IF removeOK THEN "destroyed" ELSE copyState
         /\ ignored' = IF removeOK THEN ignored
                       ELSE ignored \cup {"RemoveAll worktreeDir"}
    /\ pc' = AfterCleanup
    /\ UNCHANGED <<inputs, locals, exitCode, retErr, cleanupRet, sigv, childv,
                   destroyCalls, contextDir, bazelRC, branchState, removedName,
                   probev, proc>>

\* Finish that calls os.Exit itself when the child's exit code is not zero
FinishExitsAtOnce ==
    /\ Alive /\ pc = "finish"
    /\ IF exitCode # 0
       THEN /\ retErr' = exitCodeError(exitCode)
            /\ procState' = "exited" /\ procExit' = exitCode % 256
            /\ errPrinted' = FALSE /\ pc' = "exited"
       ELSE /\ retErr' = Nil /\ pc' = "return" /\ UNCHANGED proc
    /\ UNCHANGED <<inputs, locals, exitCode, cleanupRet, sigv, childv, world>>

\* lines 566-569: the child's exit code becomes the returned error
Finish ==
    /\ Alive /\ pc = "finish"
    /\ retErr' = IF exitCode # 0 THEN exitCodeError(exitCode) ELSE Nil
    /\ pc' = "return"
    /\ UNCHANGED <<inputs, locals, exitCode, cleanupRet, sigv, childv, world, proc>>

\* run returns: the deferred calls run, last registered first: os.Remove of
\* the temporary bazelrc (line 437), then os.RemoveAll(contextDir) (line 341)
ReturnRun ==
    /\ Alive /\ pc = "return"
    /\ contextDir' = IF contextDir = "exists" THEN "removed" ELSE contextDir
    /\ bazelRC' = IF bazelRC = "exists" THEN "removed" ELSE bazelRC
    /\ effects' = effects
                  \o (IF bazelRC = "exists" THEN <<"Remove bazelrc">> ELSE <<>>)
                  \o (IF contextDir = "exists" THEN <<"RemoveAll contextDir">> ELSE <<>>)
    /\ pc' = "main"
    /\ UNCHANGED <<inputs, locals, exitCode, retErr, cleanupRet, sigv, childv,
                   copyState, destroyCalls, ignored, branchState, removedName,
                   probev, proc>>

\* ------------------------------------------------------------- main()
\* os.Exit reports the low eight bits of its argument
ExitStatus(c) == c % 256

\* MainExit without the errors.As branch: every error exits 1
MainExitAlwaysOne ==
    /\ Alive /\ pc = "main"
    /\ procState' = "exited"
    /\ pc' = "exited"
    /\ IF retErr.type = "nil"
       THEN procExit' = 0 /\ errPrinted' = FALSE
       ELSE procExit' = 1 /\ errPrinted' = TRUE
    /\ UNCHANGED <<inputs, locals, exitCode, retErr, cleanupRet, sigv, childv, world>>

\* lines 50-57: the process exit code
MainExit ==
    /\ Alive /\ pc = "main"
    /\ procState' = "exited"
    /\ pc' = "exited"
    /\ IF retErr.type = "nil"
       THEN procExit' = 0 /\ errPrinted' = FALSE
       ELSE IF retErr.type = "exitCodeError"
       THEN procExit' = ExitStatus(retErr.code) /\ errPrinted' = FALSE
       ELSE procExit' = 1 /\ errPrinted' = TRUE
    /\ UNCHANGED <<inputs, locals, exitCode, retErr, cleanupRet, sigv, childv, world>>

\* ------------------------------------------- signals, relay and child
\* SIGINT or SIGTERM reaches the orchestrator: queued on sigCh while Notify is
\* in force (dropped when the slot is taken), fatal otherwise.
DeliverSignal ==
    /\ Alive /\ sigsLeft > 0
    /\ sigsLeft' = sigsLeft - 1
    /\ delivered' = delivered + 1
    /\ IF notifyOn
       THEN /\ sigCh' = IF Len(sigCh) < 1 THEN Append(sigCh, "sig") ELSE sigCh
            /\ UNCHANGED proc
       ELSE /\ procState' = "killed"
            /\ UNCHANGED <<sigCh, procExit, errPrinted>>
    /\ UNCHANGED <<inputs, locals, ctl, notifyOn, chClosed, relayPc, forwarded,
                   lateForward, childv, world>>

\* the goroutine's loop body: dockerCmd.Process.Signal(sig)
RelayForward ==
    /\ Alive /\ relayPc = "loop" /\ sigCh # <<>>
    /\ sigCh' = Tail(sigCh)
    /\ IF child # "none"
       THEN /\ forwarded' = forwarded + 1
            /\ lateForward' = (lateForward \/ child = "reaped")
       ELSE UNCHANGED <<forwarded, lateForward>>
    /\ UNCHANGED <<inputs, locals, ctl, notifyOn, chClosed, relayPc, sigsLeft,
                   delivered, childv, world, proc>>

\* range over a closed, drained channel ends the goroutine
RelayExit ==
    /\ Alive /\ relayPc = "loop" /\ sigCh = <<>> /\ chClosed
    /\ relayPc' = "done"
    /\ UNCHANGED <<inputs, locals, ctl, notifyOn, sigCh, chClosed, sigsLeft,
                   delivered, forwarded, lateForward, childv, world, proc>>

\* the docker child ends on its own or after a forwarded signal
ChildExit ==
    /\ child = "running"
    /\ child' = "exited"
    /\ childStatus' \in OutcomesOf([exited |-> TRUE, code |-> 0], ChildStatuses)
    /\ branchState' = IF branchState = "merged" /\ sessionCommits
                      THEN "unmerged" ELSE branchState
    /\ UNCHANGED <<inputs, locals, ctl, sigv, effects, copyState, destroyCalls,
                   contextDir, bazelRC, ignored, removedName,
                   probev, proc>>

\* ------------------------------------------------------ exec: attach
\* `return err` from the exec command's RunE: main follows
ReturnExec(e) == pc' = "main" /\ retErr' = e

\* lines 102-110: the workspace directory used as the label filter
ExecWorkspace ==
    /\ Alive /\ pc = "execWorkspace"
    /\ IF envBuildWs # NoPath
       THEN /\ workspaceDir' = envBuildWs
            /\ pc' = "execResolve" /\ retErr' = retErr
       ELSE \E getwdOK \in Outcomes :
              IF getwdOK
              THEN /\ workspaceDir' = findVCSRoot(Cwd)
                   /\ pc' = "execResolve" /\ retErr' = retErr
              ELSE /\ workspaceDir' = NoPath
                   /\ ReturnExec(Err("getting working directory"))
    /\ UNCHANGED <<inputs, vcs, worktreeDir, originalWorkspace, branchName,
                   worktreeName, suffix, containerName, execName, plan, exitCode,
                   cleanupRet, sigv, childv, world, proc>>

\* MatchTarget comparing with the exact name only
RECURSIVE MatchTargetExact(_, _, _)
MatchTargetExact(cs, t, i) ==
    IF i > Len(cs) THEN 0
    ELSE IF cs[i] = t THEN i
    ELSE MatchTargetExact(cs, t, i + 1)

\* lines 161-165: the first listed container named target or devcontainer-target
RECURSIVE MatchTarget(_, _, _)
MatchTarget(cs, t, i) ==
    IF i > Len(cs) THEN 0
    ELSE IF cs[i] = t \/ cs[i] = Prefix \o t THEN i
    ELSE MatchTarget(cs, t, i + 1)

\* resolveContainer taking the first candidate when it cannot prompt
resolveContainerFirst(t, cs, listOK, terminal, choice) ==
    IF ~listOK THEN [prompted |-> FALSE, name |-> EmptyStr, err |-> Err("listing containers")]
    ELSE IF Len(cs) = 0
    THEN [prompted |-> FALSE, name |-> EmptyStr, err |-> Err("no running devcontainers found")]
    ELSE IF t # EmptyStr
    THEN LET k == MatchTarget(cs, t, 1)
         IN IF k # 0 THEN [prompted |-> FALSE, name |-> cs[k], err |-> Nil]
            ELSE [prompted |-> FALSE, name |-> EmptyStr, err |-> Err("no running devcontainer matching")]
    ELSE IF Len(cs) = 1 THEN [prompted |-> FALSE, name |-> cs[1], err |-> Nil]
    ELSE IF ~terminal THEN [prompted |-> FALSE, name |-> cs[1], err |-> Nil]
    ELSE IF choice = 0 THEN [prompted |-> TRUE, name |-> EmptyStr, err |-> Err("selection")]
    ELSE [prompted |-> TRUE, name |-> cs[choice], err |-> Nil]

\* resolveContainer and promptSelectContainer; listOK is the outcome of
\* docker ps, choice the prompt's answer (0: the prompt failed)
resolveContainer(t, cs, listOK, terminal, choice) ==
    IF ~listOK THEN [prompted |-> FALSE, name |-> EmptyStr, err |-> Err("listing containers")]
    ELSE IF Len(cs) = 0
    THEN [prompted |-> FALSE, name |-> EmptyStr, err |-> Err("no running devcontainers found")]
    ELSE IF t # EmptyStr
    THEN LET k == MatchTarget(cs, t, 1)
         IN IF k # 0 THEN [prompted |-> FALSE, name |-> cs[k], err |-> Nil]
            ELSE [prompted |-> FALSE, name |-> EmptyStr, err |-> Err("no running devcontainer matching")]
    ELSE IF Len(cs) = 1 THEN [prompted |-> FALSE, name |-> cs[1], err |-> Nil]
    ELSE IF ~terminal
    THEN [prompted |-> FALSE, name |-> EmptyStr, err |-> Err("multiple devcontainers running")]
    ELSE IF choice = 0 THEN [prompted |-> TRUE, name |-> EmptyStr, err |-> Err("selection")]
    ELSE [prompted |-> TRUE, name |-> cs[choice], err |-> Nil]

\* lines 121-127: docker ps keeps a container with this workspace label when
\* the label filter is given, and every container when it is not
PassesFilter(label, ws) == ws = NoPath \/ label = ws

\* lines 111-115
ExecResolve ==
    /\ Alive /\ pc = "execResolve"
    /\ \E listOK \in Outcomes, choice \in 0..Len(containers) :
         LET r == resolveContainer(target, containers, listOK, isTerminal, choice)
         IN /\ effects' = effects \o <<"docker ps">>
                          \o (IF r.prompted THEN <<"prompt">> ELSE <<>>)
            /\ IF r.err # Nil
               THEN ReturnExec(r.err) /\ execName' = execName
               ELSE /\ execName' = r.name
                    /\ pc' = "execNotify" /\ retErr' = retErr
    /\ UNCHANGED <<inputs, workspaceDir, vcs, worktreeDir, originalWorkspace,
                   branchName, worktreeName, suffix, containerName, plan, exitCode,
                   cleanupRet, sigv, childv, copyState, destroyCalls,
                   contextDir, hostv, proc>>

\* lines 211-212
ExecNotify ==
    /\ Alive /\ pc = "execNotify"
    /\ notifyOn' = TRUE
    /\ pc' = "execStart"
    /\ UNCHANGED <<inputs, locals, exitCode, retErr, cleanupRet, sigCh, chClosed,
                   relayPc, sigsLeft, delivered, forwarded, lateForward, childv, world,
                   proc>>

\* lines 214-216
ExecStart ==
    /\ Alive /\ pc = "execStart"
    /\ effects' = Append(effects, "docker exec")
    /\ \E startOK \in Outcomes :
         IF startOK
         THEN child' = "running" /\ pc' = "execSpawnRelay" /\ retErr' = retErr
         ELSE child' = child /\ ReturnExec(Err("starting docker exec"))
    /\ UNCHANGED <<inputs, locals, exitCode, cleanupRet, sigv, childStatus,
                   copyState, destroyCalls, contextDir, hostv, proc>>

\* lines 218-224
ExecSpawnRelay ==
    /\ Alive /\ pc = "execSpawnRelay"
    /\ relayPc' = "loop"
    /\ pc' = "execWait"
    /\ UNCHANGED <<inputs, locals, exitCode, retErr, cleanupRet, notifyOn, sigCh,
                   chClosed, sigsLeft, delivered, forwarded, lateForward, childv, world,
                   proc>>

\* lines 226-233
ExecWait ==
    /\ Alive /\ pc = "execWait" /\ child = "exited"
    /\ child' = "reaped"
    /\ \E otherErr \in {~ok : ok \in Outcomes} :
         IF otherErr
         THEN ReturnExec(Err("running docker exec")) /\ exitCode' = exitCode
         ELSE /\ exitCode' = ExitCodeOf(childStatus)
              /\ pc' = "execStop" /\ retErr' = retErr
    /\ UNCHANGED <<inputs, locals, cleanupRet, sigv, childStatus, world, proc>>

\* line 235
ExecStopSignals ==
    /\ Alive /\ pc = "execStop"
    /\ notifyOn' = FALSE
    /\ pc' = "execClose"
    /\ UNCHANGED <<inputs, locals, exitCode, retErr, cleanupRet, sigCh, chClosed,
                   relayPc, sigsLeft, delivered, forwarded, lateForward, childv, world,
                   proc>>

\* lines 236-241
ExecFinish ==
    /\ Alive /\ pc = "execClose"
    /\ chClosed' = TRUE
    /\ ReturnExec(IF exitCode # 0 THEN exitCodeError(exitCode) ELSE Nil)
    /\ UNCHANGED <<inputs, locals, exitCode, cleanupRet, notifyOn, sigCh, relayPc,
                   sigsLeft, delivered, forwarded, lateForward, childv, world,
                   proc>>

\* ------------------------------------------------------ specification
Next ==
    \/ CheckResume \/ ValidatePorts \/ ResolveWorkspace \/ ResolveVCS
    \/ PrepareWorktree \/ CreateCopy \/ CreateContext \/ LookupUser
    \/ BuildImage \/ RemoveStale \/ TrustWorkspace \/ PlanMounts
    \/ BuildDockerArgs \/ NotifySignals
    \/ StartDocker \/ SpawnRelay \/ WaitChild \/ StopSignals \/ CloseSigCh
    \/ CleanupEnter \/ CleanupGitRemove \/ CleanupGitMergeBase
    \/ CleanupGitBranchD \/ CleanupJJForget \/ CleanupJJRemoveAll
    \/ Finish \/ ReturnRun \/ MainExit
    \/ DeliverSignal \/ RelayForward \/ RelayExit \/ ChildExit
    \/ ExecWorkspace \/ ExecResolve \/ ExecNotify \/ ExecStart
    \/ ExecSpawnRelay \/ ExecWait \/ ExecStopSignals \/ ExecFinish

Spec == Init /\ [][Next]_vars

\* ------------------------------------------------------------ properties
Has(e) == \E i \in 1..Len(effects) : effects[i] = e
After(a, b) == \E i, j \in 1..Len(effects) : i < j /\ effects[i] = a /\ effects[j] = b

\* the command of cleanupWorktree that removes the isolated copy's directory
DestroyCmd == IF vcs = "git" THEN "git worktree remove" ELSE "RemoveAll worktreeDir"

CopyCreated == copyState # "none"
RunReturned == cmd = "start" /\ pc \in {"main", "exited"}
HasErrorToReturn == cmd = "start" /\ pc \in {"return", "main", "exited"}
InCleanup ==
    pc \in {"cleanup", "clGitRemove", "clGitMergeBase", "clGitBranchD",
            "clJJForget", "clJJRemoveAll"}

\* C1: once the isolated copy was created, cleanupWorktree has destroyed it
\* exactly once by the time run has returned, whatever happened in between.
C1_DestroyedOnceOnReturn ==
    (RunReturned /\ CopyCreated) => destroyCalls = 1

\* C2: when docker build fails after the isolated copy was created, the copy
\* is destroyed before the build error is returned.
C2_BuildFailureDestroysCopy ==
    (HasErrorToReturn /\ retErr = Err("docker build") /\ CopyCreated)
        => (destroyCalls >= 1 /\ Has(DestroyCmd))

\* C3: when docker Start fails after the isolated copy was created, the copy
\* is destroyed (after the failed launch) before the launch error is returned,
\* and the process exits with code 1.
C3_LaunchFailureDestroysCopy ==
    (HasErrorToReturn /\ retErr = Err("starting docker"))
        => /\ CopyCreated => (destroyCalls = 1 /\ After("docker run", DestroyCmd))
           /\ procState = "exited" => (procExit = 1 /\ errPrinted)

C3_Witness ==
    /\ cmd = "start" /\ procState = "exited" /\ retErr = Err("starting docker")
    /\ copyState = "destroyed" /\ destroyCalls = 1 /\ procExit = 1

\* C4: a non-zero child exit code does not skip cleanup: the isolated copy is
\* destroyed only after the child was waited for, and before the non-zero
\* exit condition is returned.
C4_NonZeroExitDestroysCopy ==
    (cmd = "start" /\ CopyCreated)
        => /\ (destroyCalls >= 1 /\ cleanupRet = "normal") => child = "reaped"
           /\ (exitCode # 0 /\ pc \in {"finish", "return", "main", "exited"})
                 => (destroyCalls = 1 /\ After("docker run", DestroyCmd))
           /\ retErr.type = "exitCodeError"
                 => (destroyCalls = 1 /\ retErr.code = exitCode /\ exitCode # 0)

C4_Witness ==
    /\ cmd = "start" /\ procState = "exited" /\ copyState = "destroyed"
    /\ childStatus = [exited |-> TRUE, code |-> 137]
    /\ retErr = exitCodeError(137) /\ destroyCalls = 1

\* C5: a SIGINT/SIGTERM delivered at any moment after the isolated copy was
\* created does not prevent its destruction: once the orchestrator process has
\* ended, cleanupWorktree has run to its end.
C5_SignalStillDestroysCopy ==
    (cmd = "start" /\ procState # "running" /\ CopyCreated /\ delivered > 0)
        => (destroyCalls >= 1 /\ ~InCleanup /\ Has(DestroyCmd))

\* C6: the process exit code is 1 (with the error printed) for every harness
\* error, and otherwise the child's own exit code (0 or not) with nothing
\* printed; no run ends without a harness error unless the child was waited
\* for.  For start and exec alike.
C6_ExitCodeMirrorsChild ==
    procState = "exited"
        => /\ retErr.type = "error" => (procExit = 1 /\ errPrinted)
           /\ (retErr.type # "error" /\ childStatus.exited)
                 => (procExit = childStatus.code /\ ~errPrinted)
           /\ retErr.type # "error" => child = "reaped"
           /\ (retErr.type = "nil") <=> (procExit = 0)

C6_Witness ==
    /\ cmd = "exec" /\ procState = "exited" /\ child = "reaped"
    /\ childStatus = [exited |-> TRUE, code |-> 137]
    /\ procExit = 137 /\ ~errPrinted

\* C7: start with a resume value and a trailing command fails with the
\* configuration error and has no side effect at all.
C7_ResumeWithArgsRejected ==
    (cmd = "start" /\ resume # EmptyStr /\ Len(extraArgs) > 0)
        => /\ pc \in {"checkResume", "return", "main", "exited"}
           /\ effects = <<>> /\ copyState = "none" /\ contextDir = "none"
           /\ child = "none" /\ ~notifyOn /\ worktreeDir = NoPath
           /\ pc # "checkResume"
                 => retErr = Err("cannot combine --resume with extra command arguments")
           /\ procState = "exited" => (procExit = 1 /\ errPrinted)

C7_Witness ==
    /\ cmd = "start" /\ resume = <<" ">> /\ extraArgs = <<"bash">>
    /\ procState = "exited" /\ procExit = 1 /\ effects = <<>>

\* hostPort:containerPort, both parts integer numerals
Numeral(s) ==
    \E k \in 0..1 :
        /\ Len(s) > k
        /\ k = 1 => s[1] \in Signs
        /\ \A i \in (k + 1)..Len(s) : s[i] \in Digits

WellFormedPort(p) ==
    \E k \in 1..Len(p) :
        /\ p[k] = ":"
        /\ Numeral(SubSeq(p, 1, k - 1))
        /\ Numeral(SubSeq(p, k + 1, Len(p)))

PortErrors ==
    {Err("invalid port format"), Err("invalid host port"),
     Err("invalid container port")}

\* C8: a malformed --port entry, wherever it stands in the list, makes start
\* fail with a configuration error before any side effect.
C8_MalformedPortRejected ==
    (cmd = "start" /\ \E i \in 1..Len(ports) : ~WellFormedPort(ports[i]))
        => /\ pc \in {"checkResume", "validatePorts", "return", "main", "exited"}
           /\ effects = <<>> /\ copyState = "none" /\ contextDir = "none"
           /\ child = "none" /\ ~notifyOn /\ worktreeDir = NoPath
           /\ pc \in {"return", "main", "exited"}
                 => retErr \in PortErrors \cup
                      {Err("cannot combine --resume with extra command arguments")}
           /\ procState = "exited" => (procExit = 1 /\ errPrinted)

C8_Witness ==
    /\ cmd = "start"
    /\ ports = << <<"8080", ":", "80">>, <<"8080", ":", "abc">> >>
    /\ procState = "exited" /\ retErr = Err("invalid container port")
    /\ procExit = 1 /\ effects = <<>>

EarlyErrors ==
    PortErrors \cup {Err("cannot combine --resume with extra command arguments"),
                     Err("getting working directory")}

\* run has executed its VCS resolution (lines 276-287)
VCSResolved ==
    /\ cmd = "start"
    /\ pc \notin {"checkResume", "validatePorts", "resolveWorkspace", "resolveVCS"}
    /\ retErr \notin EarlyErrors

\* C9: --vcs wins over DEVCONTAINER_VCS, which wins over the markers; a
\* resolved kind other than git or jj is a configuration error raised before
\* any isolated copy (or anything else) is created.
C9_VCSPrecedence ==
    VCSResolved
        => /\ vcsFlag # "" => vcs = vcsFlag
           /\ (vcsFlag = "" /\ envVCS # "") => vcs = envVCS
           /\ vcs \notin {"", "git", "jj"}
                 => /\ pc \in {"return", "main", "exited"}
                    /\ retErr = Err("unknown VCS type")
                    /\ effects = <<>> /\ copyState = "none"
                    /\ worktreeDir = NoPath
                    /\ procState = "exited" => procExit = 1

C9_Witness ==
    /\ cmd = "start" /\ vcsFlag = "git" /\ envVCS = "jj"
    /\ Join(Cwd, JJ) \in fsDirs /\ Join(Cwd, GIT) \notin fsDirs
    /\ vcs = "git" /\ copyState = "exists" /\ Has("git worktree add")

\* ancestors of the working directory (itself included) that hold a marker
Marked == {p \in Ancestors : Join(p, JJ) \in fsDirs \/ Join(p, GIT) \in fsDirs}
Nearest == CHOOSE p \in Marked : \A q \in Marked : Len(q) <= Len(p)
\* the caller's repository root, before and after the isolated copy exists
CallerRoot == IF originalWorkspace # NoPath THEN originalWorkspace ELSE workspaceDir

\* C10: with no flag, no environment override and no BUILD_WORKSPACE_DIRECTORY,
\* the repository root is the nearest ancestor of the working directory that
\* holds a .jj or .git directory and the kind is that of a marker it holds;
\* with no marker up to "/", the kind is none and the working directory itself
\* stays the workspace.
C10_AutoDetectNearestAncestor ==
    (VCSResolved /\ envBuildWs = NoPath /\ vcsFlag = "" /\ envVCS = "")
        => IF Marked = {}
           THEN vcs = "" /\ workspaceDir = Cwd /\ worktreeDir = NoPath
                /\ copyState = "none"
           ELSE /\ CallerRoot = Nearest
                /\ vcs = "jj" => Join(Nearest, JJ) \in fsDirs
                /\ vcs = "git" => Join(Nearest, GIT) \in fsDirs
                /\ vcs \in {"jj", "git"}

C10_Witness ==
    /\ cmd = "start" /\ envBuildWs = NoPath /\ vcsFlag = "" /\ envVCS = ""
    /\ fsDirs = {Join(PathAt(MaxDepth - 2), GIT)}
    /\ vcs = "git" /\ originalWorkspace = PathAt(MaxDepth - 2)
    /\ copyState = "exists"

\* ------------------------------------------------ the mount plan
Launched == cmd = "start" /\ dockerArgs # NoArgs
WorkspaceDst == Comps(<<"workspace">>)
\* host paths mounted at /workspace
WorkspaceSources == {mounts[i].src : i \in {j \in 1..Len(mounts) : mounts[j].dst = WorkspaceDst}}
MountSources == {mounts[i].src : i \in 1..Len(mounts)}
\* the directory start was invoked for
CallerDir == IF envBuildWs # NoPath THEN envBuildWs ELSE Cwd
CopyCmds == {"git worktree add", "jj workspace add"}
CleanupCmds ==
    {"git worktree remove", "git merge-base --is-ancestor", "git branch -d",
     "jj workspace forget", "RemoveAll worktreeDir", "Remove worktreeDir"}

\* C11: when the resolved VCS kind is none, no isolated copy is created, the
\* caller's directory itself is what is mounted at /workspace, and cleanup
\* runs no VCS command and removes no directory.
C11_NoVCSMountsCallerDir ==
    (VCSResolved /\ vcs = "")
        => /\ copyState = "none" /\ worktreeDir = NoPath
           /\ \A e \in CopyCmds \cup CleanupCmds : ~Has(e)
           /\ destroyCalls = 0
           /\ pc \in {"dockerArgs", "notify"} \/ Launched
                 => /\ WorkspaceSources = {CallerDir}
                    /\ mounts[1] = Mount(CallerDir, WorkspaceDst, FALSE)

C11_Witness ==
    /\ VCSResolved /\ vcs = "" /\ Launched /\ child = "reaped"
    /\ cleanupRet = "normal" /\ pc = "exited" /\ procExit = 0
    /\ mounts[1].src = Cwd

MountsPlanned == cmd = "start" /\ (pc \in {"dockerArgs", "notify"} \/ Launched)
\* the original repository's VCS metadata store
MetadataStore ==
    IF vcs = "git" THEN originalWorkspace \o Comps(<<".git">>)
    ELSE originalWorkspace \o Comps(<<".jj", "repo">>)

\* C12: with git or jj, what is mounted at /workspace is the isolated copy
\* created for this session, never the caller's repository root; the root
\* itself is no mount source, only its metadata store is.
C12_WorkspaceIsIsolatedCopy ==
    (MountsPlanned /\ vcs \in {"git", "jj"})
        => /\ copyState # "none" /\ \E c \in CopyCmds : Has(c)
           /\ WorkspaceSources = {worktreeDir}
           /\ worktreeDir = JoinStr(TempDir, Prefix \o suffix)
           /\ originalWorkspace = CallerRoot /\ originalWorkspace # NoPath
           /\ worktreeDir # originalWorkspace
           /\ originalWorkspace \notin MountSources
           /\ MetadataStore \in MountSources

C12_Witness ==
    /\ Launched /\ vcs = "jj" /\ originalWorkspace = Dir(Cwd)
    /\ mounts[1] = Mount(Join(TempDir, Prefix \o <<"a">>), WorkspaceDst, FALSE)
    /\ Join(Dir(Cwd), GIT) \in MountSources
    /\ MetadataStore \in MountSources

CopyErrors == {Err("creating git worktree"), Err("creating jj workspace")}
ContainerWork ==
    {"MkdirTemp contextDir", "docker build", "docker rm -f", "write .claude.json",
     "warning .claude.json", "docker run"}

\* C13: when git worktree add / jj workspace add fails, start returns that
\* error at once: no image build, no container removal, no trust-file update
\* and no launch happen, and nothing is cleaned up after the failed command.
C13_CopyFailureAbortsEarly ==
    (cmd = "start" /\ retErr \in CopyErrors)
        => /\ pc \in {"return", "main", "exited"}
           /\ \A e \in ContainerWork : ~Has(e)
           /\ dockerArgs = NoArgs /\ mounts = <<>> /\ child = "none"
           /\ removedName = EmptyStr /\ contextDir = "none"
           /\ destroyCalls = 0 /\ cleanupRet = "none"
           /\ \A c \in CopyCmds, e \in CleanupCmds : ~After(c, e)
           /\ Has(IF vcs = "git" THEN "git worktree add" ELSE "jj workspace add")
           /\ procState = "exited" => (procExit = 1 /\ errPrinted)

C13_Witness ==
    /\ cmd = "start" /\ retErr = Err("creating jj workspace")
    /\ Has("jj workspace add") /\ copyState = "none"
    /\ procState = "exited" /\ procExit = 1

\* C14: listening for SIGINT/SIGTERM ends before the child has been waited
\* for, so once Wait has returned no signal is still being received for the
\* child and the relay never calls Process.Signal for it.
C14_StopsListeningBeforeReap ==
    child = "reaped" => (~notifyOn /\ ~lateForward)

\* commands of cleanupWorktree whose failure was swallowed
FailedDestruction ==
    ignored \cap {"git worktree remove", "git merge-base --is-ancestor",
                  "git branch -d", "jj workspace forget", "RemoveAll worktreeDir"}
\* what start reports, given only how the session itself went
PrimaryOutcome ==
    CASE cleanupRet = "launch" -> Err("starting docker")
      [] cleanupRet = "wait" -> Err("running docker")
      [] cleanupRet = "normal" ->
            IF exitCode # 0 THEN exitCodeError(exitCode) ELSE Nil
      [] OTHER -> retErr

\* C15: destruction is best-effort: whichever commands of cleanupWorktree
\* fail, it returns to its caller without an error, and what start reports
\* (success, the child's exit code, or the launch/wait error) is what it
\* reports when destruction succeeds.
C15_DestructionBestEffort ==
    (cmd = "start" /\ destroyCalls >= 1)
        => /\ retErr \in {Nil, Err("starting docker"), Err("running docker")}
                         \cup {exitCodeError(exitCode)}
           /\ pc \in {"return", "main", "exited"} => retErr = PrimaryOutcome
           /\ pc = "finish" => retErr = Nil
           /\ procState = "exited"
                 => procExit = (IF PrimaryOutcome = Nil THEN 0
                                ELSE IF PrimaryOutcome.type = "exitCodeError"
                                THEN ExitStatus(exitCode) ELSE 1)

C15_Witness ==
    /\ cmd = "start" /\ destroyCalls = 1 /\ FailedDestruction # {}
    /\ copyState = "exists" /\ cleanupRet = "normal" /\ exitCode = 0
    /\ procState = "exited" /\ procExit = 0 /\ retErr = Nil

\* cleanupWorktree has run to its end for a git session
GitCleanupDone ==
    /\ cmd = "start" /\ vcs = "git" /\ destroyCalls >= 1
    /\ pc \in {"finish", "return", "main", "exited"}
\* the session branch carries commits that HEAD does not contain
UnmergedWork == vcs = "git" /\ sessionCommits /\ child \in {"exited", "reaped"}

SessionName == IF name # EmptyStr THEN name ELSE suffix

\* C17: for every start invocation the container name used at launch is the
\* prefix "devcontainer-" followed by the session name.
C17_ContainerNameFromSessionName ==
    Launched => dockerArgs.name = Prefix \o SessionName

\* how often a command was run
Count(e) == Cardinality({i \in 1..Len(effects) : effects[i] = e})

\* C18: whenever the container is launched, docker rm -f was issued for the
\* session's container name, once, after the image build and before the
\* launch; and once it was issued, whether it failed or not, run goes on to
\* the launch: it never returns between the removal and docker run.
C18_StaleContainerRemovedBeforeLaunch ==
    cmd = "start"
        => /\ Has("docker run")
                 => /\ After("docker build", "docker rm -f")
                    /\ After("docker rm -f", "docker run")
                    /\ Count("docker rm -f") = 1
                    /\ removedName = dockerArgs.name
                    /\ removedName = containerName
           /\ Has("docker rm -f") => ~After("docker rm -f", "docker build")
           /\ (Has("docker rm -f") /\ pc \in {"return", "main", "exited"})
                 => Has("docker run")
           /\ ("docker rm -f" \in ignored /\ retErr # Nil)
                 => \/ retErr \in {Err("starting docker"), Err("running docker")}
                    \/ retErr = exitCodeError(exitCode)

C18_Witness ==
    /\ Launched /\ "docker rm -f" \in ignored
    /\ removedName = Prefix \o <<"a">> /\ dockerArgs.name = removedName
    /\ After("docker rm -f", "docker run")
    /\ procState = "exited" /\ procExit = 0

\* ------------------------------------------------ exec: resolution
\* resolveContainer has run and docker ps succeeded
ExecResolved ==
    cmd = "exec" /\ Has("docker ps") /\ retErr # Err("listing containers")
Listed == {containers[i] : i \in 1..Len(containers)}
Matches(t) == {c \in Listed : c = t \/ c = Prefix \o t}
NotFoundErrors ==
    {Err("no running devcontainers found"), Err("no running devcontainer matching")}

\* C19: with a target given, an empty list is a not-found error; otherwise
\* the result is a listed container named target or "devcontainer-" + target,
\* and not-found when there is none, even with a single candidate; nothing
\* is prompted. Among devcontainer-a, devcontainer-b and claude-dev the
\* target "b" resolves to devcontainer-b.
C19_TargetResolution ==
    (ExecResolved /\ target # EmptyStr)
        => /\ ~Has("prompt")
           /\ IF Matches(target) = {}
              THEN /\ retErr = (IF containers = <<>>
                                THEN Err("no running devcontainers found")
                                ELSE Err("no running devcontainer matching"))
                   /\ execName = EmptyStr /\ ~Has("docker exec")
                   /\ child = "none"
              ELSE /\ execName \in Matches(target)
                   /\ retErr \notin NotFoundErrors
           /\ (target = <<"b">> /\ Len(containers) = 3)
                 => execName = <<"devcontainer-", "b">>

C19_Witness ==
    /\ ExecResolved /\ target = <<"b">>
    /\ containers = << <<"devcontainer-", "a">>, <<"devcontainer-", "b">>, <<"claude-dev">> >>
    /\ execName = <<"devcontainer-", "b">> /\ Has("docker exec")

Ambiguous == Err("multiple devcontainers running")

\* C20: with no target given, an empty list is a not-found error; a single
\* candidate is selected without a prompt; two or more candidates with a
\* standard input that is no terminal is an ambiguous-target error: nothing
\* is selected, nothing is prompted and docker exec is not started.
C20_EmptyTargetResolution ==
    (ExecResolved /\ target = EmptyStr)
        => /\ Len(containers) = 0
                 => /\ retErr = Err("no running devcontainers found")
                    /\ execName = EmptyStr /\ ~Has("docker exec") /\ ~Has("prompt")
           /\ Len(containers) = 1
                 => /\ execName = containers[1] /\ ~Has("prompt")
                    /\ retErr \notin NotFoundErrors \cup {Ambiguous}
           /\ (Len(containers) >= 2 /\ ~isTerminal)
                 => /\ retErr = Ambiguous /\ execName = EmptyStr
                    /\ ~Has("docker exec") /\ ~Has("prompt") /\ child = "none"
                    /\ procState = "exited" => (procExit = 1 /\ errPrinted)
           /\ Has("prompt") <=> (Len(containers) >= 2 /\ isTerminal)

C20_Witness ==
    /\ ExecResolved /\ target = EmptyStr /\ Len(containers) = 3 /\ ~isTerminal
    /\ retErr = Ambiguous /\ execName = EmptyStr
    /\ procState = "exited" /\ procExit = 1

MountSet == {mounts[i] : i \in 1..Len(mounts)}

\* C21: whenever an isolated copy exists, the mount plan holds a read-write
\* mount of the original repository's metadata store (.git, or .jj/repo) at
\* the same absolute path in the container, whether or not that directory
\* is found on the host.
C21_MetadataStoreAlwaysMounted ==
    (MountsPlanned /\ copyState # "none")
        => \E m \in MountSet :
             /\ m.src = MetadataStore /\ Clean(m.dst) = MetadataStore
             /\ ~m.ro

C21_Witness ==
    /\ Launched /\ vcs = "git" /\ copyState = "exists"
    /\ Join(originalWorkspace, GIT) \notin fsDirs
    /\ Mount(MetadataStore, MetadataStore, FALSE) \in MountSet

\* C22: /var/run/docker.sock is in the mount plan exactly when --docker was
\* given and the path is a socket on the host; without the flag it is never
\* mounted, socket or not.
C22_DockerSocketOptIn ==
    MountsPlanned
        => /\ (DockerSock \in MountSources) <=> (docker /\ DockerSock \in fsSockets)
           /\ \A m \in MountSet :
                (m.src = DockerSock \/ m.dst = DockerSock)
                    => m = Mount(DockerSock, DockerSock, FALSE)
           /\ ~docker => \A m \in MountSet : m.src # DockerSock /\ m.dst # DockerSock

C22_Witness ==
    /\ Launched /\ ~docker /\ DockerSock \in fsSockets
    /\ DockerSock \notin MountSources /\ child = "reaped"

\* the build reached trustWorkspace and left it again
TrustDone ==
    /\ cmd = "start" /\ Has("docker rm -f")
    /\ pc \notin {"removeStale", "trust"}
TrustEffects == {"write .claude.json", "warning .claude.json"}

\* C23: updating ~/.claude.json is not fatal. With the file absent nothing
\* is written and nothing is warned about; with the file unreadable or not
\* parseable the file stays as it is, one warning is printed and nothing is
\* written; in all three cases run goes on to the mount plan and returns
\* only after docker run was attempted.
C23_TrustUpdateNonFatal ==
    /\ [][(pc = "trust" /\ claudeFile \in {"absent", "unreadable", "malformed"})
            => /\ claudeFile' = claudeFile
               /\ procState' = "running" => pc' = "planMounts" /\ retErr' = retErr
               /\ effects' = IF claudeFile = "absent" \/ procState' # "running"
                             THEN effects
                             ELSE Append(effects, "warning .claude.json")]_vars
    /\ []((TrustDone /\ claudeFile \in {"absent", "unreadable", "malformed"})
            => /\ ~Has("write .claude.json")
               /\ Count("warning .claude.json")
                     = (IF claudeFile = "absent" THEN 0 ELSE 1)
               /\ pc \in {"return", "main", "exited"} => Has("docker run"))

C23_Witness ==
    /\ TrustDone /\ claudeFile = "malformed" /\ Has("warning .claude.json")
    /\ Launched /\ child = "reaped" /\ procState = "exited" /\ procExit = 0

\* position of the first and of the last occurrence of a command (0: none)
FirstOf(e) == IF Has(e) THEN CHOOSE i \in 1..Len(effects) : effects[i] = e /\ \A j \in 1..(i - 1) : effects[j] # e ELSE 0
LastOf(e) == IF Has(e) THEN CHOOSE i \in 1..Len(effects) : effects[i] = e /\ \A j \in (i + 1)..Len(effects) : effects[j] # e ELSE 0
\* the first command of cleanupWorktree for each backend
DestroyCmds == {"git worktree remove", "jj workspace forget"}

\* C24: the lifecycle events of start occur in one order only: VCS resolved,
\* isolated copy created (optional), image built, container launched, child
\* exited, isolated copy destroyed. Nothing is run before the VCS kind is
\* resolved; the copy is not created once the build has begun; the container
\* is launched only after a build that succeeded; the copy is destroyed only
\* when no child is running any more.
C24_LifecycleOrder ==
    cmd = "start"
        => /\ ~VCSResolved => (effects = <<>> /\ copyState = "none" /\ child = "none")
           /\ \A c \in CopyCmds :
                /\ Count(c) <= 1
                /\ (Has(c) /\ Has("docker build")) => FirstOf(c) < FirstOf("docker build")
           /\ copyState # "none" => \E c \in CopyCmds : Has(c)
           /\ Count("docker build") <= 1 /\ Count("docker run") <= 1
           /\ Has("docker run")
                 => /\ After("docker build", "docker run")
                    /\ retErr # Err("docker build")
           /\ child # "none" => Has("docker run")
           /\ \A d \in DestroyCmds :
                Has(d)
                    => /\ child \in {"none", "reaped"}
                       /\ Has("docker run") /\ FirstOf("docker run") < LastOf(d)
           /\ destroyCalls >= 1 => child \in {"none", "reaped"}
           /\ copyState = "destroyed" => (destroyCalls >= 1 /\ child \in {"none", "reaped"})

C24_Witness ==
    /\ cmd = "start" /\ vcs = "jj" /\ copyState = "destroyed" /\ child = "reaped"
    /\ After("jj workspace add", "docker build") /\ After("docker build", "docker run")
    /\ After("docker run", "jj workspace forget")
    /\ procState = "exited"

\* ------------------------------------------------ progress
\* Steps of the orchestrator's main goroutine; the signals that arrive and
\* the moment the child ends are the environment's.
MainStep ==
    \/ CheckResume \/ ValidatePorts \/ ResolveWorkspace \/ ResolveVCS
    \/ PrepareWorktree \/ CreateCopy \/ CreateContext \/ LookupUser
    \/ BuildImage \/ RemoveStale \/ TrustWorkspace \/ PlanMounts
    \/ BuildDockerArgs \/ NotifySignals
    \/ StartDocker \/ SpawnRelay \/ WaitChild \/ StopSignals \/ CloseSigCh
    \/ CleanupEnter \/ CleanupGitRemove \/ CleanupGitMergeBase
    \/ CleanupGitBranchD \/ CleanupJJForget \/ CleanupJJRemoveAll
    \/ Finish \/ ReturnRun \/ MainExit
    \/ ExecWorkspace \/ ExecResolve \/ ExecNotify \/ ExecStart
    \/ ExecSpawnRelay \/ ExecWait \/ ExecStopSignals \/ ExecFinish

\* Sessions with signals, for the properties that need progress.
InitLive ==
    \/ InitStart({<<"a">>}, {"git", "jj"}, {""}, {NoPath}, {{}},
                 {<<>>}, {EmptyStr}, {<<>>}, {MaxSignals}, BOOLEAN)
    \/ InitExec({NoPath}, {{}}, {MaxSignals}, {FALSE})

\* Every goroutine that can take a step eventually takes one; every command
\* the orchestrator runs returns.
LiveSpec ==
    /\ InitLive /\ [][Next]_vars
    /\ WF_vars(MainStep) /\ WF_vars(RelayForward) /\ WF_vars(RelayExit)

\* C25: while the child runs, SIGINT/SIGTERM does not end the orchestrator:
\* the signal is queued on sigCh, or dropped when the one slot is taken; a
\* queued signal is handed to the child by the relay unless the child ends
\* or the orchestrator shuts down first.
C25_SignalsRelayedWhileRunning ==
    /\ [](child = "running" => (notifyOn /\ Len(sigCh) <= 1))
    /\ [][(child = "running" /\ delivered' = delivered + 1)
            => /\ procState' = "running"
               /\ sigCh' = IF sigCh = <<>> THEN <<"sig">> ELSE sigCh
               /\ forwarded' = forwarded]_vars
    /\ [][(child = "running" /\ Len(sigCh') < Len(sigCh))
            => (forwarded' = forwarded + 1 /\ child' = "running")]_vars
    /\ \A n \in 0..MaxSignals :
         (child = "running" /\ sigCh # <<>> /\ forwarded = n)
             ~> (forwarded > n \/ child # "running" \/ procState # "running")

C25_Witness ==
    /\ cmd = "start" /\ child = "running" /\ procState = "running"
    /\ delivered = MaxSignals /\ forwarded >= 1

\* cleanupWorktree has run (or there was no copy to destroy) and run returned
CleanedUp == RunReturned /\ (worktreeDir = NoPath \/ destroyCalls >= 1)

\* C26: start ends the child by no step of its own and passes dockerCmd.Wait
\* only after the child exited; once the child exited, start reaches the
\* cleaned-up terminal state and returns.
C26_ChildExitLeadsToCleanedUp ==
    /\ [][(child = "running" /\ child' # "running")
            => (pc' = pc /\ forwarded' = forwarded /\ procState' = procState)]_vars
    /\ [][(cmd = "start" /\ pc = "wait" /\ pc' # "wait") => child # "running"]_vars
    /\ (cmd = "start" /\ child = "exited") ~> CleanedUp

\* the same, except when a signal outside the Notify window killed start
C26_UnlessKilled ==
    (cmd = "start" /\ child = "exited") ~> (CleanedUp \/ procState = "killed")

\* the root found by the walk from the working directory, when nothing overrides it
DetectedRoot == IF Marked # {} THEN Nearest ELSE Cwd
Manifest(dir) == Join(dir, <<"MODULE.bazel">>)

\* C27: the bazel output base is queried and mounted only when MODULE.bazel
\* exists in the original repository root; with an isolated copy the probe
\* and `bazel info output_base` use the original root, never the copy, and
\* without one they use the caller's directory.
C27_BazelProbedAtOriginalRoot ==
    MountsPlanned =>
        /\ Has("bazel info output_base") <=> fileExists(Manifest(CallerRoot))
        /\ Has("bazel info output_base") => bazelDir = CallerRoot
        /\ BazelOutputBase \in MountSources => fileExists(Manifest(CallerRoot))
        /\ CopyCreated => (CallerRoot = originalWorkspace /\ CallerRoot # worktreeDir)
        /\ ~CopyCreated => CallerRoot = workspaceDir
        /\ (vcsFlag = "" /\ envVCS = "" /\ envBuildWs = NoPath)
              => CallerRoot = DetectedRoot

C27_Witness ==
    /\ MountsPlanned /\ CopyCreated
    /\ fileExists(Manifest(originalWorkspace)) /\ ~fileExists(Manifest(worktreeDir))
    /\ bazelDir = originalWorkspace /\ BazelOutputBase \in MountSources

\* the scope of the place an invocation is made from: BUILD_WORKSPACE_DIRECTORY
\* when set, else the root the walk from the working directory finds
Scope == IF envBuildWs # NoPath THEN envBuildWs ELSE DetectedRoot
ExecScoped == cmd = "exec" /\ pc # "execWorkspace" /\ retErr # Err("getting working directory")

\* C28: the workspace label of a launched container is the scope of the
\* place start was invoked from, the original root and never the isolated
\* copy; exec invoked from the same place filters by that same value, so the
\* container passes exec's label filter.
C28_LabelIsExecScope ==
    /\ Launched =>
          /\ dockerArgs.label = Scope
          /\ CopyCreated => (dockerArgs.label = originalWorkspace
                             /\ dockerArgs.label # worktreeDir)
    /\ ExecScoped => (workspaceDir = Scope /\ PassesFilter(Scope, workspaceDir))

C28_Witness ==
    /\ Launched /\ CopyCreated /\ envBuildWs = NoPath
    /\ Scope = Dir(Cwd) /\ dockerArgs.label = Dir(Cwd)

C28_ExecWitness ==
    /\ ExecScoped /\ Has("docker ps") /\ envBuildWs = NoPath
    /\ workspaceDir = Dir(Cwd)

\* the mount plan for the session's parameters and probe results, had
\* os.CreateTemp drawn the name r for the bazelrc file
PlanWith(r) ==
    BaseMounts \o (IF bazelRC # "none" THEN BazelMounts(r) ELSE <<>>)
        \o SocketMounts \o ConditionalMounts \o SSHMounts \o VCSMounts
UnconditionalDsts ==
    << Comps(<<"workspace">>), DevHome \o Comps(<<".cache", "bazelisk">>),
       DevHome \o Comps(<<".cargo">>), DevHome \o Comps(<<".rustup">>),
       DevHome \o Comps(<<"go">>), DevHome \o Comps(<<"gopath">>),
       DevHome \o Comps(<<".npm">>), DevHome \o Comps(<<".cache", "pnpm">>),
       DevHome \o Comps(<<".claude">>), DevHome \o Comps(<<".claude.json">>) >>
\* the workspace mount first, then the other unconditional entries, in the
\* order of the source, and none of them again later
OrderFixed ==
    /\ Len(mounts) >= Len(UnconditionalDsts)
    /\ mounts[1] = Mount(workspaceDir, Comps(<<"workspace">>), FALSE)
    /\ \A i \in 1..Len(UnconditionalDsts) : mounts[i].dst = UnconditionalDsts[i]
    /\ \A i \in (Len(UnconditionalDsts) + 1)..Len(mounts) :
          \A j \in 1..Len(UnconditionalDsts) : mounts[i].dst # UnconditionalDsts[j]

\* C29: the mount and environment entries are a function of the session's
\* parameters and the host probe results alone: the same whatever else
\* happened in the run, with the unconditional entries first and the
\* workspace mount at the head.
C29_MountPlanDeterministic ==
    MountsPlanned =>
        /\ \A r \in TempNames : mounts = PlanWith(r)
        /\ envArgs = SSHEnv
        /\ OrderFixed

\* the same, up to the name os.CreateTemp drew
C29_DeterministicButTempName ==
    MountsPlanned =>
        /\ \E r \in TempNames : mounts = PlanWith(r)
        /\ envArgs = SSHEnv
        /\ OrderFixed

C29_Witness ==
    /\ MountsPlanned /\ bazelRC = "exists" /\ Len(mounts) >= 14
    /\ mounts = PlanWith(<<"t2">>) /\ mounts # PlanWith(<<"t1">>)

\* C30: the ports published at launch are the --port entries themselves, one
\* -p per entry, in the order given and unchanged; each of them passed the
\* validation, which leaves the list as it was given.
C30_PortsPassedUnchanged ==
    Launched =>
        /\ Len(dockerArgs.ports) = Len(ports)
        /\ \A i \in 1..Len(ports) :
              dockerArgs.ports[i] = ports[i] /\ PortValid(ports[i])

C30_Witness ==
    /\ Launched /\ Len(ports) = MaxPorts
    /\ dockerArgs.ports[1] = <<"8080", ":", "80">>
    /\ \E i \in 2..MaxPorts : dockerArgs.ports[i] # dockerArgs.ports[1]

\* a string of spaces only, the empty string included
Blank(s) == \A i \in 1..Len(s) : s[i] = " "
ResumeCommand == << <<"claude">>, <<"--dangerously-skip-permissions">>, <<"--resume">> >>

\* C31: with a resume value the container command is claude with --resume,
\* followed by the value only when it is not blank; with none the trailing
\* arguments are passed as given, and with neither the command is empty, so
\* the image's default command runs.
C31_ContainerCommand ==
    Launched =>
        /\ resume # EmptyStr =>
              dockerArgs.command
                  = ResumeCommand \o (IF Blank(resume) THEN <<>> ELSE <<resume>>)
        /\ resume = EmptyStr =>
              /\ Len(dockerArgs.command) = Len(extraArgs)
              /\ \A i \in 1..Len(extraArgs) : dockerArgs.command[i] = <<extraArgs[i]>>

C31_Witness ==
    /\ Launched /\ resume = <<" ">> /\ dockerArgs.command = ResumeCommand

C31_IdWitness ==
    /\ Launched /\ resume = <<"id">> /\ Len(dockerArgs.command) = 4

\* the kind of the markers a directory holds, .jj before .git
KindAt(p) ==
    IF Join(p, JJ) \in fsDirs THEN "jj"
    ELSE IF Join(p, GIT) \in fsDirs THEN "git" ELSE ""
AncestorsOf(p) == {SubSeq(p, 1, d) : d \in 0..Len(p)}
MarkedFrom(p) == {q \in AncestorsOf(p) : KindAt(q) # ""}
\* the kind the upward walk from p finds
WalkKind(p) ==
    IF MarkedFrom(p) = {} THEN ""
    ELSE KindAt(CHOOSE q \in MarkedFrom(p) : \A o \in MarkedFrom(p) : Len(o) <= Len(q))
AutoDetect == vcsFlag = "" /\ envVCS = ""

\* C32: a set BUILD_WORKSPACE_DIRECTORY is the workspace root of start and of
\* exec instead of the working directory, and the VCS kind auto-detected for
\* it is the kind the upward marker walk from it finds.
C32_BuildWorkspaceDirectory ==
    /\ (VCSResolved /\ envBuildWs # NoPath) => CallerRoot = envBuildWs
    /\ (ExecScoped /\ envBuildWs # NoPath) => workspaceDir = envBuildWs
    /\ (VCSResolved /\ envBuildWs # NoPath /\ AutoDetect) => vcs = WalkKind(envBuildWs)

\* what the code does for BUILD_WORKSPACE_DIRECTORY: only the markers the
\* directory itself holds count, while the working directory is walked from
C32_NoWalkFromBuildWorkspace ==
    /\ (VCSResolved /\ envBuildWs # NoPath) => CallerRoot = envBuildWs
    /\ (ExecScoped /\ envBuildWs # NoPath) => workspaceDir = envBuildWs
    /\ (VCSResolved /\ envBuildWs # NoPath /\ AutoDetect) => vcs = KindAt(envBuildWs)
    /\ (VCSResolved /\ envBuildWs = NoPath /\ AutoDetect) => vcs = WalkKind(Cwd)

\* C33: cleanupWorktree destroys the isolated copy at most once in a run: each
\* of its commands runs at most once, and the three call sites (Start failed,
\* Wait failed, normal exit) exclude each other.
C33_DestroyedAtMostOnce ==
    /\ destroyCalls <= 1
    /\ \A c \in DestroyCmds \cup {"git merge-base --is-ancestor", "git branch -d"} :
          Count(c) <= 1
    /\ Count("RemoveAll worktreeDir") <= (IF name # EmptyStr THEN 2 ELSE 1)
    /\ cleanupRet = "launch" => (child = "none" /\ retErr = Err("starting docker"))
    /\ cleanupRet = "wait" => (child = "reaped" /\ retErr = Err("running docker"))
    /\ cleanupRet = "normal"
          => (child = "reaped" /\ retErr \in {Nil, exitCodeError(exitCode)})

C33_Witness ==
    /\ RunReturned /\ cleanupRet = "wait" /\ destroyCalls = 1
    /\ Count(DestroyCmd) >= 1

\* sessions that may run at the same time in the same environment
OtherSessions == [name : Names \cup {<<"b">>}, vcs : {"", "git", "jj"}, rnd : RandSuffixes]
\* the other session was given the same explicit --name
SharesName(o) == name # EmptyStr /\ o.name = name
\* os.MkdirTemp gives two sessions different directories
DistinctDraw(o) == (name = EmptyStr /\ o.name = EmptyStr) => o.rnd # suffix
OtherName(o) == containerNameOf(o.name, o.vcs, envContainerName, o.rnd)

\* C34: the container that docker rm -f removes is never that of another
\* session, unless both sessions were given the same --name: the names of
\* two such sessions differ, whatever their VCS kinds.
C34_NeverRemovesOtherSession ==
    removedName # EmptyStr =>
        /\ removedName = containerNameOf(name, vcs, envContainerName, suffix)
        /\ \A o \in OtherSessions :
              (~SharesName(o) /\ DistinctDraw(o)) => OtherName(o) # removedName

\* the same for two sessions that both have a VCS kind
C34_DistinctWithVCS ==
    (removedName # EmptyStr /\ vcs # "") =>
        /\ removedName = containerNameOf(name, vcs, envContainerName, suffix)
        /\ \A o \in OtherSessions :
              (o.vcs # "" /\ ~SharesName(o) /\ DistinctDraw(o))
                  => OtherName(o) # removedName

\* the isolated-copy directory of another session that is still active
OtherDir(o) == worktreeDirOf(o.name, o.rnd)

\* C35: the directory start removes before creation (os.RemoveAll for a named
\* session) and creates its copy in is never the isolated-copy directory of
\* another session that is still active.
C35_NeverRemovesActiveCopy ==
    (cmd = "start" /\ worktreeDir # NoPath) =>
        /\ worktreeDir = worktreeDirOf(name, suffix)
        /\ \A o \in OtherSessions :
              (o.vcs # "" /\ DistinctDraw(o)) => OtherDir(o) # worktreeDir

\* the same for another session that was not given this session's --name
C35_DistinctUnlessSameName ==
    (cmd = "start" /\ worktreeDir # NoPath) =>
        /\ worktreeDir = worktreeDirOf(name, suffix)
        /\ \A o \in OtherSessions :
              (o.vcs # "" /\ ~SharesName(o) /\ DistinctDraw(o))
                  => OtherDir(o) # worktreeDir

\* signal.Notify was called: it directly precedes dockerCmd.Start
Registered == Has("docker run") \/ Has("docker exec")
Returned == pc \in {"main", "exited"}
RelayLeftRunningErrors ==
    { Err("starting docker"), Err("running docker"),
      Err("starting docker exec"), Err("running docker exec") }

\* C36: once the channel was registered, run and runExec return only after
\* signal.Stop and then close(sigCh), on the failure paths too; the channel
\* is never closed while still registered.
C36_RelayShutDownBeforeReturn ==
    /\ chClosed => ~notifyOn
    /\ (Returned /\ Registered) => (~notifyOn /\ chClosed)

\* the same for the paths on which Start and Wait did not fail
C36_ShutDownOnNormalReturn ==
    /\ chClosed => ~notifyOn
    /\ (Returned /\ Registered /\ retErr \notin RelayLeftRunningErrors)
          => (~notifyOn /\ chClosed)
    /\ (Returned /\ Registered /\ retErr \in RelayLeftRunningErrors)
          => (notifyOn /\ ~chClosed)

\* C37: however run ends after creating them (a returned error, a non-zero
\* exit code of the child, a panic), the build-context directory and the
\* temporary bazelrc file are gone once run is over; a non-zero exit code
\* reaches os.Exit only through run's return value.
C37_TempFilesRemoved ==
    /\ (RunReturned \/ (cmd = "start" /\ procState \in {"exited", "panicked"}))
          => (contextDir # "exists" /\ bazelRC # "exists")
    /\ (cmd = "start" /\ procState = "exited" /\ procExit # 0 /\ ~errPrinted)
          => (retErr = exitCodeError(exitCode) /\ pc = "exited")

C37_Witness ==
    /\ cmd = "start" /\ procState = "exited" /\ procExit = 1
    /\ retErr = exitCodeError(1)
    /\ contextDir = "removed" /\ bazelRC = "removed"

\* the token cleanupWorktree needs: the branch for git, the workspace for jj
Token == IF vcs = "git" THEN branchName ELSE worktreeName

\* C38: whenever the isolated copy exists, the container name, the VCS token
\* and the base name of the copy's directory are one string, "devcontainer-"
\* and the suffix, and none of them changes from creation to cleanup.
C38_OneNameForSession ==
    /\ [](CopyCreated => /\ containerName = Prefix \o suffix
                         /\ Token = Prefix \o suffix
                         /\ Base(worktreeDir) = Prefix \o suffix)
    /\ [][CopyCreated => UNCHANGED <<containerName, branchName, worktreeName,
                                     worktreeDir, suffix, vcs>>]_vars

\* the same for a --name without a path separator
C38_OneNameUnlessSeparator ==
    /\ []((CopyCreated /\ \A i \in 1..Len(name) : name[i] # "/")
             => /\ containerName = Prefix \o suffix
                /\ Token = Prefix \o suffix
                /\ Base(worktreeDir) = Prefix \o suffix)
    /\ [][CopyCreated => UNCHANGED <<containerName, branchName, worktreeName,
                                     worktreeDir, suffix, vcs>>]_vars

\* C39: with no --vcs and no DEVCONTAINER_VCS, a workspace root that holds
\* both .jj and .git resolves to jj, and the copy is a jj workspace.
C39_JJBeforeGit ==
    (VCSResolved /\ AutoDetect
       /\ Join(CallerRoot, JJ) \in fsDirs /\ Join(CallerRoot, GIT) \in fsDirs)
        => /\ vcs = "jj"
           /\ ~Has("git worktree add")

C39_Witness ==
    /\ VCSResolved /\ AutoDetect /\ fsDirs = Colocated
    /\ vcs = "jj" /\ CallerRoot = Dir(Cwd) /\ Has("jj workspace add")

SSHEnvEntry == "SSH_AUTH_SOCK=/tmp/ssh-agent.sock"
EnvSet == {envArgs[i] : i \in 1..Len(envArgs)}
\* the git repository the jj store's git_target file names
JJRepo == Clean(originalWorkspace \o Comps(<<".jj", "repo">>))
GitTargetPath ==
    IF gitTarget.abs THEN Clean(gitTarget.path)
    ELSE Clean(originalWorkspace \o Comps(<<".jj", "repo", "store">>) \o gitTarget.path)
Inside(p, dir) == Len(p) >= Len(dir) /\ SubSeq(p, 1, Len(dir)) = dir

\* C40: SSH_AUTH_SOCK=/tmp/ssh-agent.sock is passed exactly when the host's
\* agent socket is mounted at /tmp/ssh-agent.sock, which is exactly when the
\* host's SSH_AUTH_SOCK is not empty; for jj the repository git_target names
\* is mounted only when it is a directory outside .jj/repo.
C40_SSHAgentAndGitTarget ==
    MountsPlanned =>
        /\ (SSHEnvEntry \in EnvSet) <=> (envSSHSock # NoPath)
        /\ (\E m \in MountSet : m.dst = SSHAgentSock) <=> (envSSHSock # NoPath)
        /\ \A m \in MountSet : m.dst = SSHAgentSock => (m.src = envSSHSock /\ ~m.ro)
        /\ EnvSet \subseteq {SSHEnvEntry}
        /\ (vcs = "jj" /\ CopyCreated /\ gitTarget.present)
              => ((GitTargetPath \in MountSources)
                    <=> (GitTargetPath \in fsDirs /\ ~Inside(GitTargetPath, JJRepo)))
        /\ (vcs # "jj" \/ ~gitTarget.present) => OutsideGit \notin MountSources

C40_Witness ==
    /\ MountsPlanned /\ vcs = "jj" /\ CopyCreated /\ gitTarget.present
    /\ GitTargetPath = OutsideGit
    /\ Mount(OutsideGit, OutsideGit, FALSE) \in MountSet

C40_SSHWitness ==
    /\ MountsPlanned /\ envSSHSock # NoPath /\ SSHEnvEntry \in EnvSet
    /\ Mount(envSSHSock, SSHAgentSock, FALSE) \in MountSet

====
